---- MODULE Spec2Model ----
(***************************************************************************)
(* A model of DateTz (src/src/date-tz.ts): a minute-precision instant      *)
(* paired with a timezone id, its offset cache, its arithmetic, its       *)
(* formatter and its parser.                                               *)
(*                                                                         *)
(* Representation of numbers.  A JavaScript timestamp is an integer count  *)
(* of milliseconds that does not fit TLC's 32-bit integers for the dates   *)
(* of interest, so a millisecond count t is kept as the pair               *)
(*     [q |-> t div 60000, r |-> t mod 60000]   (floor division)           *)
(* All arithmetic of the source on timestamps is carried out on pairs.     *)
(*                                                                         *)
(* Representation of strings.  A string is a sequence of one-character     *)
(* strings, so that formatting, tokenizing and parsing are computed        *)
(* character by character as the source does.                              *)
(***************************************************************************)
EXTENDS Integers, Sequences, FiniteSets, TLC

MS_PER_SECOND == 1000
MS_PER_MINUTE == MS_PER_SECOND * 60
MS_PER_HOUR == MS_PER_MINUTE * 60
MS_PER_DAY == MS_PER_HOUR * 24
MS_PER_WEEK == MS_PER_DAY * 7

MINUTES_PER_DAY == MS_PER_DAY \div MS_PER_MINUTE

\* ---------------------------------------------------------------- numbers

\* const name = value; body: the body with the value, computed once, as name.
With(value, Body(_)) == Body(value)

\* The millisecond count minutes * 60000 + millis, normalised.
Ms(minutes, millis) ==
  [q |-> minutes + (millis \div MS_PER_MINUTE), r |-> millis % MS_PER_MINUTE]

MsAdd(a, b) == Ms(a.q + b.q, a.r + b.r)
MsSub(a, b) == Ms(a.q - b.q, a.r - b.r)
MsLt(a, b) == a.q < b.q \/ (a.q = b.q /\ a.r < b.r)
MsLe(a, b) == a = b \/ MsLt(a, b)
MsZero == Ms(0, 0)
MsSign(a) == IF a = MsZero THEN 0 ELSE IF MsLt(a, MsZero) THEN 0 - 1 ELSE 1
\* seconds * MS_PER_SECOND as a millisecond count (|seconds| < 2^21).
MsOfSeconds(seconds) == Ms(0, seconds * MS_PER_SECOND)
\* value * unitMs for a unit that is a whole number of minutes.
MsTimes(value, unitMs) == Ms(value * (unitMs \div MS_PER_MINUTE), 0)

\* The timestamp kept as given.
floorToMinuteWrong(timestamp) == timestamp
\* The timestamp truncated toward zero (Math.trunc in place of Math.floor).
floorToMinuteTrunc(timestamp) ==
  IF timestamp.q < 0 /\ timestamp.r # 0 THEN Ms(timestamp.q + 1, 0)
  ELSE Ms(timestamp.q, 0)
floorToMinute(timestamp) == Ms(timestamp.q, 0)

\* ---------------------------------------------------------------- calendar

daysPerMonth == <<31, 28, 31, 30, 31, 30, 31, 31, 30, 31, 30, 31>>

isLeapYear(year) ==
  (year % 4 = 0 /\ year % 100 # 0) \/ (year % 400 = 0)

daysInMonth(year, month) ==
  IF month = 1 THEN (IF isLeapYear(year) THEN 29 ELSE 28)
  ELSE daysPerMonth[month + 1]

Min(a, b) == IF a < b THEN a ELSE b
Max(a, b) == IF a > b THEN a ELSE b

\* The day kept as given, to be carried into the next month by Date.UTC.
clampDayWrong(year, month, day) == day
clampDay(year, month, day) == Min(day, daysInMonth(year, month))

\* Day number (days since 1970-01-01) of the first day of a proleptic
\* Gregorian month; month is 0-based and already within 0..11.
DayFromYearMonth(year, month) ==
  With(IF month <= 1 THEN year - 1 ELSE year, LAMBDA y :
    LET yoe == y % 400
        mp == (month + 10) % 12
        doy == (153 * mp + 2) \div 5
        doe == yoe * 365 + (yoe \div 4) - (yoe \div 100) + doy
    IN (y \div 400) * 146097 + doe - 719468)

\* Date.UTC(year, month, day, hour, minute, second): out-of-range fields
\* carry, and a year in 0..99 means 1900 + year.
DateUTC(year, month, day, hour, minute, second) ==
  LET fullYear == IF year >= 0 /\ year <= 99 THEN 1900 + year ELSE year
      ym == fullYear * 12 + month
      days == DayFromYearMonth(ym \div 12, ym % 12) + (day - 1)
  IN Ms(days * MINUTES_PER_DAY + hour * 60 + minute, second * MS_PER_SECOND)

\* The getUTC* fields of new Date(ms).
UTCFields(ms) ==
  With((ms.q \div MINUTES_PER_DAY) + 719468, LAMBDA z :
  With(z % 146097, LAMBDA doe :
  With((doe - (doe \div 1460) + (doe \div 36524) - (doe \div 146096)) \div 365,
       LAMBDA yoe :
  With(doe - (365 * yoe + (yoe \div 4) - (yoe \div 100)), LAMBDA doy :
  With((5 * doy + 2) \div 153, LAMBDA mp :
    [year |-> yoe + (z \div 146097) * 400 + (IF mp >= 10 THEN 1 ELSE 0),
     month |-> IF mp < 10 THEN mp + 2 ELSE mp - 10,
     day |-> doy - ((153 * mp + 2) \div 5) + 1,
     hour |-> (ms.q % MINUTES_PER_DAY) \div 60,
     minute |-> (ms.q % MINUTES_PER_DAY) % 60,
     second |-> ms.r \div MS_PER_SECOND])))))

\* getUTCDay of new Date(ms): 0 is Sunday; 1970-01-01 was a Thursday.
UTCDay(ms) == ((ms.q \div MINUTES_PER_DAY) + 4) % 7

\* ---------------------------------------------------------------- catalog

\* The value of a missing property or argument.
Undefined == "<undefined>"

\* The timezone catalog (timezones.ts): id -> offsets in seconds.
timezones ==
  ("UTC" :> [sdt |-> 0, dst |-> 0])
  @@ ("Asia/Tokyo" :> [sdt |-> 32400, dst |-> 32400])
  @@ ("America/New_York" :> [sdt |-> 0 - 18000, dst |-> 0 - 14400])
  @@ ("Europe/Rome" :> [sdt |-> 3600, dst |-> 7200])

\* ensureTimezone(id): does the lookup succeed (otherwise it throws).
ensureTimezone(id) == id \in DOMAIN timezones

\* ---------------------------------------------------------------- host

VARIABLES
  intl,    \* the host's Intl.DateTimeFormat: usable ("up"), throwing ("down"),
           \* or usable with zone data that has daylight time in effect ("daylight")
  heap,    \* object id -> object, or NoObject
  last,    \* the last call: operation, receiver, arguments, outcome, heap before
  ops      \* number of calls made so far

vars == <<intl, heap, last, ops>>

\* Day number of the n-th Sunday (n >= 1) of a month.
NthSunday(year, month, n) ==
  With(DayFromYearMonth(year, month), LAMBDA first :
    first + ((7 - ((first + 4) % 7)) % 7) + 7 * (n - 1))

\* Day number of the last Sunday of a month.
LastSunday(year, month) ==
  With(DayFromYearMonth(year, month) + daysInMonth(year, month) - 1, LAMBDA lastDay :
    lastDay - ((lastDay + 4) % 7))

\* The end of local mean time in the host's zone data: 1883-11-18 17:00Z for
\* America/New_York (4:56:02 behind), 1893-10-31 23:00Z for Europe/Rome
\* (0:49:56 ahead).
LocalMeanTimeEnd(timezone) ==
  IF timezone = "America/New_York" THEN DateUTC(1883, 10, 18, 17, 0, 0)
  ELSE DateUTC(1893, 9, 31, 23, 0, 0)
LocalMeanTimeOffset(timezone) ==
  IF timezone = "America/New_York" THEN 0 - 17762 ELSE 2996

\* The offset the host's zone data gives at an instant, in seconds: the United
\* States rule for America/New_York (second Sunday of March 07:00Z to first
\* Sunday of November 06:00Z), the European Union rule for Europe/Rome (last
\* Sunday of March 01:00Z to last Sunday of October 01:00Z), local mean time
\* before the zones' standard time began.
HostOffsetSeconds(timezone, timestamp) ==
  IF intl = "daylight" THEN timezones[timezone].dst
  ELSE IF /\ timezone \in {"America/New_York", "Europe/Rome"}
          /\ timestamp.q < LocalMeanTimeEnd(timezone).q
    THEN LocalMeanTimeOffset(timezone)
  ELSE With(UTCFields(timestamp).year, LAMBDA year :
    CASE timezone = "America/New_York" ->
           IF /\ timestamp.q >= NthSunday(year, 2, 2) * MINUTES_PER_DAY + 7 * 60
              /\ timestamp.q < NthSunday(year, 10, 1) * MINUTES_PER_DAY + 6 * 60
           THEN 0 - 14400 ELSE 0 - 18000
      [] timezone = "Europe/Rome" ->
           IF /\ timestamp.q >= LastSunday(year, 2) * MINUTES_PER_DAY + 60
              /\ timestamp.q < LastSunday(year, 9) * MINUTES_PER_DAY + 60
           THEN 7200 ELSE 3600
      [] OTHER -> timezones[timezone].sdt)

\* computeIntlOffsetSeconds: <<>> is null.  The host formats the instant's
\* wall-clock fields (whole seconds); the difference to the timestamp is
\* rounded to seconds.
computeIntlOffsetSeconds(timezone, timestamp) ==
  IF intl = "down" THEN <<>>
  ELSE LET offset == HostOffsetSeconds(timezone, timestamp)
           adjustedMinusTimestamp ==
             offset * MS_PER_SECOND - (timestamp.r % MS_PER_SECOND)
       IN <<(adjustedMinusTimestamp + 500) \div MS_PER_SECOND>>

\* The resolver falling back to the catalog when the host's offset is in
\* neither catalog column.
computeOffsetInfoCatalogOnly(timezone, timestamp) ==
  With(computeIntlOffsetSeconds(timezone, timestamp), LAMBDA intlOffset :
    LET tzInfo == timezones[timezone]
    IN IF tzInfo.dst = tzInfo.sdt \/ intlOffset = <<>>
         THEN [offsetSeconds |-> tzInfo.sdt, isDst |-> FALSE]
       ELSE IF intlOffset[1] # tzInfo.sdt /\ intlOffset[1] # tzInfo.dst
         THEN [offsetSeconds |-> tzInfo.sdt, isDst |-> FALSE]
       ELSE [offsetSeconds |-> intlOffset[1], isDst |-> intlOffset[1] = tzInfo.dst])

\* The daylight flag of the resolver with the standard offset kept for the
\* clock.
computeOffsetInfoWrong(timezone, timestamp) ==
  With(computeIntlOffsetSeconds(timezone, timestamp), LAMBDA intlOffset :
    LET tzInfo == timezones[timezone]
    IN IF tzInfo.dst = tzInfo.sdt
         THEN [offsetSeconds |-> tzInfo.sdt, isDst |-> FALSE]
       ELSE IF intlOffset = <<>>
         THEN [offsetSeconds |-> tzInfo.sdt, isDst |-> FALSE]
       ELSE IF intlOffset[1] # tzInfo.sdt /\ intlOffset[1] # tzInfo.dst
         THEN [offsetSeconds |-> tzInfo.sdt, isDst |-> intlOffset[1] > tzInfo.sdt]
       ELSE [offsetSeconds |-> tzInfo.sdt, isDst |-> intlOffset[1] = tzInfo.dst])

computeOffsetInfo(timezone, timestamp) ==
  With(computeIntlOffsetSeconds(timezone, timestamp), LAMBDA intlOffset :
    LET tzInfo == timezones[timezone]
    IN IF tzInfo.dst = tzInfo.sdt
         THEN [offsetSeconds |-> tzInfo.sdt, isDst |-> FALSE]
       ELSE IF intlOffset = <<>>
         THEN [offsetSeconds |-> tzInfo.sdt, isDst |-> FALSE]
       ELSE IF intlOffset[1] # tzInfo.sdt /\ intlOffset[1] # tzInfo.dst
         THEN [offsetSeconds |-> intlOffset[1], isDst |-> intlOffset[1] > tzInfo.sdt]
       ELSE [offsetSeconds |-> intlOffset[1], isDst |-> intlOffset[1] = tzInfo.dst])

\* ---------------------------------------------------------------- strings

DigitChars == <<"0", "1", "2", "3", "4", "5", "6", "7", "8", "9">>
IsDigit(c) == \E d \in 1..10 : DigitChars[d] = c
DigitValue(c) == (CHOOSE d \in 1..10 : DigitChars[d] = c) - 1

RECURSIVE Digits(_)
Digits(n) ==
  IF n < 10 THEN <<DigitChars[n + 1]>>
  ELSE Digits(n \div 10) \o <<DigitChars[(n % 10) + 1]>>

\* String(value) of an integer.
String(value) == IF value < 0 THEN <<"-">> \o Digits(0 - value) ELSE Digits(value)

RECURSIVE padStart(_, _)
padStart(s, length) ==
  IF Len(s) >= length THEN s ELSE padStart(<<"0">> \o s, length)

pad(value, length) == padStart(String(value), length)

\* s.slice(from, to) for 0 <= from, with to clipped to the length.
Slice(s, from, to) == SubSeq(s, from + 1, Min(to, Len(s)))
\* s.slice(-n): the last n characters.
SliceLast(s, n) == SubSeq(s, Max(1, Len(s) - n + 1), Len(s))

RECURSIVE TrimStart(_)
TrimStart(s) == IF s # <<>> /\ s[1] = " " THEN TrimStart(Tail(s)) ELSE s
RECURSIVE TrimEnd(_)
TrimEnd(s) ==
  IF s # <<>> /\ s[Len(s)] = " " THEN TrimEnd(SubSeq(s, 1, Len(s) - 1)) ELSE s
Trim(s) == TrimEnd(TrimStart(s))

RECURSIVE DigitsValue(_)
DigitsValue(s) ==
  IF s = <<>> THEN 0
  ELSE DigitsValue(SubSeq(s, 1, Len(s) - 1)) * 10 + DigitValue(s[Len(s)])

\* Number(chunk) over the model's alphabet: blanks are trimmed, the empty
\* string is 0, an optional sign and decimal digits are a number, anything
\* else is NaN (finite |-> FALSE).
Number(chunk) ==
  With(Trim(chunk), LAMBDA t :
    IF t = <<>> THEN [value |-> 0, finite |-> TRUE]
    ELSE With(IF t[1] \in {"-", "+"} THEN Tail(t) ELSE t, LAMBDA body :
           IF body # <<>> /\ \A i \in 1..Len(body) : IsDigit(body[i])
           THEN [value |-> IF t[1] = "-" THEN 0 - DigitsValue(body)
                           ELSE DigitsValue(body),
                 finite |-> TRUE]
           ELSE [value |-> 0, finite |-> FALSE]))

UpperChar(c) ==
  CASE c = "a" -> "A" [] c = "p" -> "P" [] c = "m" -> "M" [] OTHER -> c
LowerChar(c) ==
  CASE c = "A" -> "a" [] c = "P" -> "p" [] c = "M" -> "m" [] OTHER -> c
\* toUpperCase / toLowerCase over the letters of the AM/PM markers.
ToUpperCase(s) == [i \in 1..Len(s) |-> UpperChar(s[i])]
ToLowerCase(s) == [i \in 1..Len(s) |-> LowerChar(s[i])]

\* The characters of a timezone id.
TzChars(id) ==
  CASE id = "UTC" -> <<"U", "T", "C">>
    [] id = "Asia/Tokyo" -> <<"A", "s", "i", "a", "/", "T", "o", "k", "y", "o">>
    [] id = "America/New_York" ->
         <<"A", "m", "e", "r", "i", "c", "a", "/", "N", "e", "w", "_", "Y", "o", "r", "k">>
    [] id = "Europe/Rome" -> <<"E", "u", "r", "o", "p", "e", "/", "R", "o", "m", "e">>
    [] id = "Mars/Phobos" -> <<"M", "a", "r", "s", "/", "P", "h", "o", "b", "o", "s">>
    [] OTHER -> <<"?">>

TzIds == {"UTC", "Asia/Tokyo", "America/New_York", "Europe/Rome", "Mars/Phobos"}

\* The id spelled by a character sequence; a sequence that spells none of the
\* model's ids is an id absent from the catalog.
TzOfChars(chars) ==
  IF \E id \in TzIds : TzChars(id) = chars
  THEN CHOOSE id \in TzIds : TzChars(id) = chars
  ELSE "?"

\* ---------------------------------------------------------------- patterns

\* The token alternatives of TOKEN_REGEX, in the order the regex tries them.
TokenKeys ==
  <<<<"Y", "Y", "Y", "Y">>, <<"y", "y", "y", "y">>, <<"Y", "Y">>, <<"y", "y">>,
    <<"M", "M">>, <<"L", "M">>, <<"D", "D">>, <<"H", "H">>, <<"h", "h">>,
    <<"m", "m">>, <<"s", "s">>, <<"a", "a">>, <<"A", "A">>, <<"t", "z">>>>

\* Does key occur in pattern at 0-based index i.
StartsWithAt(pattern, i, key) ==
  /\ i + Len(key) <= Len(pattern)
  /\ \A k \in 1..Len(key) : pattern[i + k] = key[k]

\* The match of TOKEN_REGEX that starts at index i, or <<>>: a bracketed run
\* first, then the token alternatives in order.
MatchAt(pattern, i) ==
  IF /\ pattern[i + 1] = "["
     /\ \E j \in (i + 2)..Len(pattern) : pattern[j] = "]"
  THEN LET j == CHOOSE j \in (i + 2)..Len(pattern) :
                  /\ pattern[j] = "]"
                  /\ \A k \in (i + 2)..(j - 1) : pattern[k] # "]"
       IN <<SubSeq(pattern, i + 1, j)>>
  ELSE IF \E n \in 1..Len(TokenKeys) : StartsWithAt(pattern, i, TokenKeys[n])
  THEN LET n == CHOOSE n \in 1..Len(TokenKeys) :
                  /\ StartsWithAt(pattern, i, TokenKeys[n])
                  /\ \A k \in 1..(n - 1) : ~StartsWithAt(pattern, i, TokenKeys[k])
       IN <<TokenKeys[n]>>
  ELSE <<>>

RECURSIVE TokenizeFrom(_, _, _, _)
TokenizeFrom(pattern, i, lastIndex, segments) ==
  IF i >= Len(pattern)
  THEN IF lastIndex < Len(pattern)
       THEN Append(segments,
                   [value |-> Slice(pattern, lastIndex, Len(pattern)), kind |-> "literal"])
       ELSE segments
  ELSE With(MatchAt(pattern, i), LAMBDA match :
         IF match = <<>> THEN TokenizeFrom(pattern, i + 1, lastIndex, segments)
         ELSE TokenizeFrom(pattern, i + Len(match[1]), i + Len(match[1]),
                Append(IF i > lastIndex
                       THEN Append(segments,
                                   [value |-> Slice(pattern, lastIndex, i),
                                    kind |-> "literal"])
                       ELSE segments,
                       IF match[1][1] = "[" /\ match[1][Len(match[1])] = "]"
                       THEN [value |-> SubSeq(match[1], 2, Len(match[1]) - 1),
                             kind |-> "literal"]
                       ELSE [value |-> match[1], kind |-> "token"])))

tokenizePattern(pattern) == TokenizeFrom(pattern, 0, 0, <<>>)

\* FORMAT_TOKEN_CHECK.test(value)
containsFormattingToken(value) ==
  \E i \in 0..(Len(value) - 1) : \E n \in 1..Len(TokenKeys) :
    StartsWithAt(value, i, TokenKeys[n])

\* ---------------------------------------------------------------- objects

\* Outcome of a call: a returned value or a thrown Error (its message, without
\* the interpolated argument).
Return(value) == [ok |-> TRUE, err |-> "", val |-> value]
Throw(message) == [ok |-> FALSE, err |-> message]

EInvalidTimezone == "Invalid timezone"
EUnsupportedUnit == "Unsupported unit"
EUnsupportedGranularity == "Unsupported granularity"
EUnsupportedDurationUnit == "Unsupported duration unit"
EInvalidInclusivity == "Invalid inclusivity token"
ECannotCompare == "Cannot compare dates with different timezones"
EStartBeforeEnd == "Start date must be before end date"
EAmPmRequired == "AM/PM marker (aa or AA) is required when using 12-hour format (hh)"
EExpectedLiteral == "Failed to parse date string: expected literal"
EInvalidDateString == "Invalid date string at token"
EInvalidNumeric == "Invalid numeric value for token"
EParseTimezone == "Failed to parse timezone identifier"
ELocaleMonth == "Parsing locale month names (LM) is not supported"
EConsumeEntire == "Failed to consume entire date string"
EMissingAmPm == "Missing AM/PM marker for 12-hour format"

\* An object of the heap: a DateTz instance (proto "DateTz") or a plain
\* object with a timestamp and an optional timezone (proto "Object").
\* offsetCache is <<>> (undefined) or <<[timestamp, info]>>.
NewObject(proto, timestamp, timezone) ==
  [timestamp |-> timestamp,
   timezone |-> timezone,
   proto |-> proto,
   offsetCache |-> <<>>]

\* The constructor without the validation of the timezone.
constructorWrong(value, tz) ==
  LET timezone == IF tz = Undefined THEN "UTC" ELSE tz
  IN Return(NewObject("DateTz", floorToMinute(value), timezone))
\* new DateTz(value, tz) for a number value; tz may be Undefined.
constructor(value, tz) ==
  LET timezone == IF tz = Undefined THEN "UTC" ELSE tz
  IN IF ~ensureTimezone(timezone) THEN Throw(EInvalidTimezone)
     ELSE Return(NewObject("DateTz", floorToMinute(value), timezone))

\* new DateTz(value) for an object value.
constructorFromObject(value) == constructor(value.timestamp, value.timezone)

invalidateOffsetCache(this) == [this EXCEPT !.offsetCache = <<>>]

\* getOffsetInfo: the receiver afterwards (its cache filled) and the info.
getOffsetInfo(this) ==
  IF this.offsetCache # <<>> /\ this.offsetCache[1].timestamp = this.timestamp
  THEN [this |-> this, info |-> this.offsetCache[1].info]
  ELSE With(computeOffsetInfo(this.timezone, this.timestamp), LAMBDA info :
         [this |-> [this EXCEPT !.offsetCache =
                      <<[timestamp |-> this.timestamp, info |-> info]>>],
          info |-> info])

\* resolveOffsetSeconds(true)
resolveOffsetSeconds(this) ==
  With(getOffsetInfo(this), LAMBDA r :
    [offsetSeconds |-> r.info.offsetSeconds, this |-> r.this])

\* getLocalParts(true): the receiver afterwards and the local fields.
getLocalParts(this) ==
  With(resolveOffsetSeconds(this), LAMBDA r :
    [this |-> r.this,
     parts |-> UTCFields(MsAdd(this.timestamp, MsOfSeconds(r.offsetSeconds)))])

\* The dayOfWeek getter.
dayOfWeek(this) ==
  With(resolveOffsetSeconds(this), LAMBDA r :
    [val |-> UTCDay(MsAdd(this.timestamp, MsOfSeconds(r.offsetSeconds))),
     this |-> r.this])

\* The isDst getter.
get_isDst(this) ==
  With(getOffsetInfo(this), LAMBDA r :
    [ok |-> TRUE, err |-> "", val |-> r.info.isDst, this |-> r.this])

\* The hour getter (year, month, day and minute read the same fields).
get_hour(this) ==
  With(getLocalParts(this), LAMBDA r :
    [ok |-> TRUE, err |-> "", val |-> r.parts.hour, this |-> r.this])

\* ---------------------------------------------------------------- toString

defaultFormat ==
  <<"Y", "Y", "Y", "Y", "-", "M", "M", "-", "D", "D", " ",
    "H", "H", ":", "m", "m", ":", "s", "s">>

\* Long month names of the locale 'en', capitalised (toLocaleString is the
\* host's; other locales are not modelled).
monthName(month) ==
  <<<<"J", "a", "n", "u", "a", "r", "y">>,
    <<"F", "e", "b", "r", "u", "a", "r", "y">>,
    <<"M", "a", "r", "c", "h">>,
    <<"A", "p", "r", "i", "l">>,
    <<"M", "a", "y">>,
    <<"J", "u", "n", "e">>,
    <<"J", "u", "l", "y">>,
    <<"A", "u", "g", "u", "s", "t">>,
    <<"S", "e", "p", "t", "e", "m", "b", "e", "r">>,
    <<"O", "c", "t", "o", "b", "e", "r">>,
    <<"N", "o", "v", "e", "m", "b", "e", "r">>,
    <<"D", "e", "c", "e", "m", "b", "e", "r">>>>[month + 1]

\* isLikelyLocale: Intl.getCanonicalLocales accepts the candidate.
isLikelyLocale(candidate) == candidate \in {<<"e", "n">>, <<"i", "t">>}

\* The replacement of one token of the pattern.
TokenText(token, parts, timezone) ==
  LET hour12 == IF parts.hour % 12 = 0 THEN 12 ELSE parts.hour % 12
      ampm == IF parts.hour >= 12 THEN <<"P", "M">> ELSE <<"A", "M">>
      YYYY == String(parts.year)
      YY == SliceLast(YYYY, 2)
  IN CASE token \in {<<"Y", "Y", "Y", "Y">>, <<"y", "y", "y", "y">>} -> YYYY
       [] token \in {<<"Y", "Y">>, <<"y", "y">>} -> YY
       [] token = <<"M", "M">> -> pad(parts.month + 1, 2)
       [] token = <<"L", "M">> -> monthName(parts.month)
       [] token = <<"D", "D">> -> pad(parts.day, 2)
       [] token = <<"H", "H">> -> pad(parts.hour, 2)
       [] token = <<"h", "h">> -> pad(hour12, 2)
       [] token = <<"m", "m">> -> pad(parts.minute, 2)
       [] token = <<"s", "s">> -> pad(parts.second, 2)
       [] token = <<"a", "a">> -> ToLowerCase(ampm)
       [] token = <<"A", "A">> -> ampm
       [] token = <<"t", "z">> -> TzChars(timezone)

RECURSIVE Render(_, _, _, _)
Render(segments, i, parts, timezone) ==
  IF i > Len(segments) THEN <<>>
  ELSE (IF segments[i].kind = "literal" THEN segments[i].value
        ELSE TokenText(segments[i].value, parts, timezone))
       \o Render(segments, i + 1, parts, timezone)

\* toString(patternOrLocale) without a second argument; the empty string
\* stands for a missing patternOrLocale too.  pattern.replace(TOKEN_REGEX, ...)
\* keeps the text between matches, strips the brackets of a bracketed run and
\* replaces each token.  The receiver afterwards has its cache filled.
toString(this, patternOrLocale) ==
  With(getLocalParts(this), LAMBDA r :
    [ok |-> TRUE,
     err |-> "",
     val |-> Render(tokenizePattern(
                      IF Len(patternOrLocale) > 0
                      THEN IF containsFormattingToken(patternOrLocale)
                             THEN patternOrLocale
                           ELSE IF isLikelyLocale(patternOrLocale) THEN defaultFormat
                           ELSE patternOrLocale
                      ELSE defaultFormat),
                    1, r.parts, this.timezone),
     this |-> r.this])

\* ---------------------------------------------------------------- parse

\* The fields parse collects; <<>> is undefined, <<v>> is the value v.
EmptyParseState ==
  [year |-> <<>>,
   month |-> <<>>,
   day |-> <<>>,
   minute |-> <<>>,
   second |-> <<>>,
   timezone |-> <<>>,
   hour12 |-> <<>>,
   ampm |-> <<>>,
   yearTwoDigit |-> <<>>,
   hour24 |-> <<>>]

\* value ?? fallback
OrElse(opt, fallback) == IF opt = <<>> THEN fallback ELSE opt[1]

convertTwoDigitYear(value) == value + (IF value >= 70 THEN 1900 ELSE 2000)

\* dateString.indexOf(needle, from), or -1.
IndexOf(dateString, needle, from) ==
  LET hits == {k \in from..(Len(dateString) - Len(needle)) :
                 Slice(dateString, k, k + Len(needle)) = needle}
  IN IF hits = {} THEN 0 - 1 ELSE CHOOSE k \in hits : \A h \in hits : k <= h

\* The state field a numeric token fills, and its width.
TokenField(token) ==
  CASE token \in {<<"Y", "Y", "Y", "Y">>, <<"y", "y", "y", "y">>} -> "year"
    [] token \in {<<"Y", "Y">>, <<"y", "y">>} -> "yearTwoDigit"
    [] token = <<"M", "M">> -> "month"
    [] token = <<"D", "D">> -> "day"
    [] token = <<"H", "H">> -> "hour24"
    [] token = <<"h", "h">> -> "hour12"
    [] token = <<"m", "m">> -> "minute"
    [] token = <<"s", "s">> -> "second"
    [] OTHER -> "none"
TokenWidth(token) ==
  IF token \in {<<"Y", "Y", "Y", "Y">>, <<"y", "y", "y", "y">>} THEN 4 ELSE 2

\* The first non-empty literal after segment i, or <<>>.
NextLiteral(segments, i) ==
  LET js == {j \in (i + 1)..Len(segments) :
               segments[j].kind = "literal" /\ Len(segments[j].value) > 0}
  IN IF js = {} THEN <<>>
     ELSE segments[CHOOSE j \in js : \A k \in js : j <= k].value

\* The scan of the input against the segments from segment i on (the for
\* loop of parse): a thrown error, or the cursor and the fields at the end.
RECURSIVE Scan(_, _, _, _, _)
Scan(dateString, segments, i, cursor, state) ==
  IF i > Len(segments) THEN [ok |-> TRUE, cursor |-> cursor, state |-> state]
  ELSE LET token == segments[i].value
       IN IF segments[i].kind = "literal"
          THEN IF Slice(dateString, cursor, cursor + Len(token)) # token
               THEN Throw(EExpectedLiteral)
               ELSE Scan(dateString, segments, i + 1, cursor + Len(token), state)
          ELSE IF TokenField(token) # "none"
          THEN With(Slice(dateString, cursor, cursor + TokenWidth(token)), LAMBDA chunk :
                 IF Len(chunk) # TokenWidth(token) THEN Throw(EInvalidDateString)
                 ELSE With(Number(chunk), LAMBDA value :
                        IF ~value.finite THEN Throw(EInvalidNumeric)
                        ELSE Scan(dateString, segments, i + 1,
                                  cursor + TokenWidth(token),
                                  [state EXCEPT ![TokenField(token)] = <<value.value>>])))
          ELSE IF token \in {<<"a", "a">>, <<"A", "A">>}
          THEN With(Slice(dateString, cursor, cursor + 2), LAMBDA chunk :
                 IF Len(chunk) # 2 THEN Throw(EInvalidDateString)
                 ELSE Scan(dateString, segments, i + 1, cursor + 2,
                           [state EXCEPT !.ampm = <<chunk>>]))
          ELSE IF token = <<"t", "z">>
          THEN With(NextLiteral(segments, i), LAMBDA nextLiteral :
                 IF nextLiteral # <<>>
                 THEN With(IndexOf(dateString, nextLiteral, cursor), LAMBDA nextIndex :
                        IF nextIndex = 0 - 1 THEN Throw(EParseTimezone)
                        ELSE Scan(dateString, segments, i + 1, nextIndex,
                                  [state EXCEPT !.timezone =
                                     <<Trim(Slice(dateString, cursor, nextIndex))>>]))
                 ELSE Scan(dateString, segments, i + 1, Len(dateString),
                           [state EXCEPT !.timezone =
                              <<Trim(Slice(dateString, cursor, Len(dateString)))>>]))
          ELSE Throw(ELocaleMonth)

\* One candidate of the resolution loop: the instant that shows the parsed
\* fields under offsetSeconds, its own local fields compared with the target.
Candidate(baseUtc, targetUtc, offsetSeconds, timezone) ==
  With(getLocalParts(constructor(MsSub(baseUtc, MsOfSeconds(offsetSeconds)),
                                 timezone).val),
       LAMBDA r :
    [isDst |-> getOffsetInfo(r.this).info.isDst,
     date |-> r.this,
     delta |-> MsSub(DateUTC(r.parts.year, r.parts.month, r.parts.day,
                             r.parts.hour, r.parts.minute, 0),
                     targetUtc)])

\* The loop over the distinct offsets: exactMatches, nextCandidate and
\* previousCandidate after offsets[k..].
RECURSIVE Resolve(_, _, _, _, _, _)
Resolve(offsets, k, baseUtc, targetUtc, timezone, acc) ==
  IF k > Len(offsets) THEN acc
  ELSE With(Candidate(baseUtc, targetUtc, offsets[k], timezone), LAMBDA record :
         LET next == acc.nextCandidate
             prev == acc.previousCandidate
         IN Resolve(offsets, k + 1, baseUtc, targetUtc, timezone,
              IF record.delta = MsZero
                THEN [acc EXCEPT !.exactMatches = Append(@, record)]
              ELSE IF MsLt(MsZero, record.delta)
                THEN IF \/ next = <<>>
                        \/ MsLt(record.delta, next[1].delta)
                        \/ (record.delta = next[1].delta /\ record.isDst /\ ~next[1].isDst)
                     THEN [acc EXCEPT !.nextCandidate = <<record>>]
                     ELSE acc
              ELSE IF \/ prev = <<>>
                      \/ MsLt(prev[1].delta, record.delta)
                      \/ (record.delta = prev[1].delta /\ record.isDst /\ ~prev[1].isDst)
                   THEN [acc EXCEPT !.previousCandidate = <<record>>]
                   ELSE acc))

\* exactMatches[0] without the sort.
FirstAfterSortWrong(exactMatches) == exactMatches[1]
\* exactMatches.sort((a, b) => Number(b.isDst) - Number(a.isDst))[0]: the
\* sort is stable, so the first daylight record if there is one, else the first.
FirstAfterSort(exactMatches) ==
  IF \E k \in 1..Len(exactMatches) : exactMatches[k].isDst
  THEN exactMatches[CHOOSE k \in 1..Len(exactMatches) :
                      /\ exactMatches[k].isDst
                      /\ \A j \in 1..(k - 1) : ~exactMatches[j].isDst]
  ELSE exactMatches[1]

\* The selection preferring the candidate before the target to the one after.
SelectWrong(acc, baseUtc, timezone) ==
  IF Len(acc.exactMatches) > 0 THEN acc.exactMatches[1].date
  ELSE IF acc.previousCandidate # <<>> THEN acc.previousCandidate[1].date
  ELSE IF acc.nextCandidate # <<>> THEN acc.nextCandidate[1].date
  ELSE constructor(MsSub(baseUtc, MsOfSeconds(timezones[timezone].sdt)), timezone).val
\* The result selection of parse after the loop over the offsets.
Select(acc, baseUtc, timezone) ==
  IF Len(acc.exactMatches) > 0 THEN FirstAfterSort(acc.exactMatches).date
  ELSE IF acc.nextCandidate # <<>> THEN acc.nextCandidate[1].date
  ELSE IF acc.previousCandidate # <<>> THEN acc.previousCandidate[1].date
  ELSE constructor(MsSub(baseUtc, MsOfSeconds(timezones[timezone].sdt)), timezone).val

\* The instant for the parsed local fields in a valid timezone (the
\* candidate resolution and result selection of parse).
resolveLocal(year, month, day, hour, minute, second, timezone) ==
  With(DateUTC(year, month, day, hour, minute, second), LAMBDA baseUtc :
    invalidateOffsetCache(
      Select(Resolve(IF timezones[timezone].sdt = timezones[timezone].dst
                     THEN <<timezones[timezone].sdt>>
                     ELSE <<timezones[timezone].sdt, timezones[timezone].dst>>,
                     1, baseUtc, DateUTC(year, month, day, hour, minute, 0), timezone,
                     [nextCandidate |-> <<>>,
                      previousCandidate |-> <<>>,
                      exactMatches |-> <<>>]),
             baseUtc, timezone)))

\* The fields of parse after the scan, validated and resolved; tz may be
\* Undefined.
resolveState(state, tz) ==
  LET year == IF state.year # <<>> THEN state.year[1]
              ELSE IF state.yearTwoDigit # <<>>
                THEN convertTwoDigitYear(state.yearTwoDigit[1])
              ELSE 1970
      hour24 == IF state.hour24 # <<>> THEN state.hour24[1]
                ELSE IF state.hour12 # <<>>
                  THEN (state.hour12[1] % 12)
                       + (IF ToUpperCase(state.ampm[1]) = <<"P", "M">> THEN 12 ELSE 0)
                ELSE 0
      timezone == IF state.timezone # <<>> /\ Len(state.timezone[1]) > 0
                  THEN TzOfChars(state.timezone[1])
                  ELSE IF tz = Undefined THEN "UTC" ELSE tz
  IN IF state.hour24 = <<>> /\ state.hour12 # <<>> /\ state.ampm = <<>>
       THEN Throw(EMissingAmPm)
     ELSE IF ~ensureTimezone(timezone) THEN Throw(EInvalidTimezone)
     ELSE Return(resolveLocal(year, OrElse(state.month, 1) - 1, OrElse(state.day, 1),
                              hour24, OrElse(state.minute, 0), OrElse(state.second, 0),
                              timezone))

\* parse with the AM/PM requirement checked after the scan instead of before.
parseScanFirst(dateString, pattern, tz) ==
  With(tokenizePattern(IF Len(pattern) > 0 THEN pattern ELSE defaultFormat),
       LAMBDA segments :
    With(Scan(dateString, segments, 1, 0, EmptyParseState), LAMBDA scan :
      IF ~scan.ok THEN scan
      ELSE IF scan.cursor # Len(dateString) THEN Throw(EConsumeEntire)
      ELSE IF /\ \E k \in 1..Len(segments) :
                   segments[k].kind = "token" /\ segments[k].value = <<"h", "h">>
              /\ ~\E k \in 1..Len(segments) :
                    segments[k].kind = "token"
                    /\ segments[k].value \in {<<"a", "a">>, <<"A", "A">>}
        THEN Throw(EAmPmRequired)
      ELSE resolveState(scan.state, tz)))

\* parse without the check that the cursor reached the end of the input.
parseKeepsRest(dateString, pattern, tz) ==
  With(tokenizePattern(IF Len(pattern) > 0 THEN pattern ELSE defaultFormat),
       LAMBDA segments :
    IF /\ \E k \in 1..Len(segments) :
            segments[k].kind = "token" /\ segments[k].value = <<"h", "h">>
       /\ ~\E k \in 1..Len(segments) :
             segments[k].kind = "token"
             /\ segments[k].value \in {<<"a", "a">>, <<"A", "A">>}
    THEN Throw(EAmPmRequired)
    ELSE With(Scan(dateString, segments, 1, 0, EmptyParseState), LAMBDA scan :
           IF ~scan.ok THEN scan
           ELSE resolveState(scan.state, tz)))

\* DateTz.parse(dateString, pattern, tz); tz may be Undefined, and the empty
\* string stands for a missing pattern too.
parse(dateString, pattern, tz) ==
  With(tokenizePattern(IF Len(pattern) > 0 THEN pattern ELSE defaultFormat),
       LAMBDA segments :
    IF /\ \E k \in 1..Len(segments) :
            segments[k].kind = "token" /\ segments[k].value = <<"h", "h">>
       /\ ~\E k \in 1..Len(segments) :
             segments[k].kind = "token"
             /\ segments[k].value \in {<<"a", "a">>, <<"A", "A">>}
    THEN Throw(EAmPmRequired)
    ELSE With(Scan(dateString, segments, 1, 0, EmptyParseState), LAMBDA scan :
           IF ~scan.ok THEN scan
           ELSE IF scan.cursor # Len(dateString) THEN Throw(EConsumeEntire)
           ELSE resolveState(scan.state, tz)))

\* ---------------------------------------------------------------- units

\* unit.toLowerCase() for the unit spellings of the model.
UnitToLowerCase(unit) ==
  CASE unit = "M" -> "m" [] unit = "Day" -> "day" [] OTHER -> unit

UNIT_ALIASES ==
  [ms |-> "millisecond", millisecond |-> "millisecond", milliseconds |-> "millisecond",
   s |-> "second", sec |-> "second", second |-> "second", seconds |-> "second",
   m |-> "minute", min |-> "minute", minute |-> "minute", minutes |-> "minute",
   h |-> "hour", hr |-> "hour", hour |-> "hour", hours |-> "hour",
   d |-> "day", day |-> "day", days |-> "day",
   w |-> "week", wk |-> "week", week |-> "week", weeks |-> "week",
   M |-> "month", mon |-> "month", month |-> "month", months |-> "month",
   y |-> "year", yr |-> "year", year |-> "year", years |-> "year"]

DURATION_ALIASES ==
  [minute |-> "minute", minutes |-> "minute", hour |-> "hour", hours |-> "hour",
   day |-> "day", days |-> "day", week |-> "week", weeks |-> "week",
   month |-> "month", months |-> "month", year |-> "year", years |-> "year"]

\* normalizeDiffUnit(unit); unit may be Undefined.
normalizeDiffUnit(unit) ==
  IF unit = Undefined \/ unit = "" THEN Return("millisecond")
  ELSE IF UnitToLowerCase(unit) \in DOMAIN UNIT_ALIASES
    THEN Return(UNIT_ALIASES[UnitToLowerCase(unit)])
  ELSE Throw(EUnsupportedUnit)

normalizeGranularity(unit) ==
  With(normalizeDiffUnit(unit), LAMBDA normalized :
    IF ~normalized.ok THEN normalized
    ELSE IF normalized.val \in {"millisecond", "second"}
      THEN Throw(EUnsupportedGranularity)
    ELSE normalized)

\* Every token of two characters accepted.
normalizeInclusivityWrong(token) ==
  IF Len(token) # 2 THEN Throw(EInvalidInclusivity) ELSE Return(token)

\* normalizeInclusivity(token): the token is a character sequence.
normalizeInclusivity(token) ==
  IF Len(token) # 2 THEN Throw(EInvalidInclusivity)
  ELSE IF token[1] \notin {"(", "["} \/ token[2] \notin {")", "]"}
    THEN Throw(EInvalidInclusivity)
  ELSE Return(token)

hasDurationUnit(key) == key \in DOMAIN DURATION_ALIASES

\* ---------------------------------------------------------------- arithmetic

\* Outcome of a method on a receiver: the receiver afterwards, and either a
\* returned value or a thrown Error.
Done(this, value) == [ok |-> TRUE, err |-> "", val |-> value, this |-> this]
Fail(this, message) == [ok |-> FALSE, err |-> message, this |-> this]

\* The remainder a % b of JavaScript: it has the sign of a.
JsRem(a, b) == IF a >= 0 THEN a % b ELSE 0 - ((0 - a) % b)

\* The text setFromLocalParts builds from local fields.
formatted(parts) ==
  pad(parts.year, 4) \o <<"-">> \o pad(parts.month + 1, 2) \o <<"-">>
  \o pad(parts.day, 2) \o <<" ">> \o pad(parts.hour, 2) \o <<":">>
  \o pad(parts.minute, 2) \o <<":">> \o pad(parts.second, 2)

\* setFromLocalParts(parts) for parts whose month is within 0..11.
setFromLocalParts(this, parts) ==
  With(parse(formatted([parts EXCEPT
                          !.day = clampDay(parts.year, parts.month, parts.day)]),
             defaultFormat, this.timezone),
       LAMBDA parsed :
    IF ~parsed.ok THEN Fail(this, parsed.err)
    ELSE Done([this EXCEPT !.timestamp = parsed.val.timestamp,
                           !.timezone = parsed.val.timezone,
                           !.offsetCache = <<>>], "this"))

shiftCalendar(this, unit, value) ==
  IF value = 0 THEN Done(this, "this")
  ELSE With(getLocalParts(this), LAMBDA r :
         LET totalMonths == r.parts.year * 12 + r.parts.month + value
             remMonth == JsRem(totalMonths, 12)
             year == IF unit = "year" THEN r.parts.year + value
                     ELSE IF remMonth < 0 THEN (totalMonths \div 12) - 1
                     ELSE totalMonths \div 12
             month == IF unit = "year" THEN r.parts.month
                      ELSE IF remMonth < 0 THEN remMonth + 12 ELSE remMonth
         IN setFromLocalParts(r.this,
              [r.parts EXCEPT !.year = year, !.month = month,
                              !.day = clampDay(year, month, r.parts.day)]))

\* A week counted as one day.
FixedUnitMsWrong(unit) ==
  CASE unit = "minute" -> MS_PER_MINUTE
    [] unit = "hour" -> MS_PER_HOUR
    [] unit = "day" -> MS_PER_DAY
    [] unit = "week" -> MS_PER_DAY

FixedUnitMs(unit) ==
  CASE unit = "minute" -> MS_PER_MINUTE
    [] unit = "hour" -> MS_PER_HOUR
    [] unit = "day" -> MS_PER_DAY
    [] unit = "week" -> MS_PER_WEEK

shift(this, unit, value) ==
  IF value = 0 THEN Done(this, "this")
  ELSE IF unit \in {"minute", "hour", "day", "week"}
    THEN Done([this EXCEPT
                 !.timestamp =
                   floorToMinute(MsAdd(this.timestamp, MsTimes(value, FixedUnitMs(unit)))),
                 !.offsetCache = <<>>], "this")
  ELSE IF unit \in {"month", "year"} THEN shiftCalendar(this, unit, value)
  ELSE Fail(this, EUnsupportedUnit)

\* add without its own zero check, the cache invalidated on every call.
\* add that returns the receiver where it was.
addStays(this, value, unit) == Done(this, "this")
addWrong(this, value, unit) ==
  shift(invalidateOffsetCache(this), unit, value)
add(this, value, unit) ==
  IF value = 0 THEN Done(this, "this") ELSE shift(this, unit, value)

subtract(this, value, unit) ==
  IF value = 0 THEN Done(this, "this") ELSE shift(this, unit, 0 - value)

\* plus(duration): duration is the sequence of the object's entries
\* <<key, value>> in insertion order, every value an integer.
RECURSIVE plusFrom(_, _, _)
plusFrom(this, duration, k) ==
  IF k > Len(duration) THEN Done(this, "this")
  ELSE IF ~hasDurationUnit(duration[k][1]) THEN Fail(this, EUnsupportedDurationUnit)
  ELSE IF duration[k][2] = 0 THEN plusFrom(this, duration, k + 1)
  ELSE With(shift(this, DURATION_ALIASES[duration[k][1]], duration[k][2]), LAMBDA r :
         IF ~r.ok THEN r ELSE plusFrom(r.this, duration, k + 1))

plus(this, duration) == plusFrom(this, duration, 1)

\* The entries of the object minus builds: the keys in first-insertion order,
\* each with its negated value; entries with a falsy value are left out.
RECURSIVE Inverted(_, _)
Inverted(duration, k) ==
  IF k > Len(duration) THEN <<>>
  ELSE IF duration[k][2] = 0
    THEN Inverted(duration, k + 1)
  ELSE <<<<duration[k][1], 0 - duration[k][2]>>>> \o Inverted(duration, k + 1)

minus(this, duration) ==
  IF \E k \in 1..Len(duration) : ~hasDurationUnit(duration[k][1])
  THEN Fail(this, EUnsupportedDurationUnit)
  ELSE plus(this, Inverted(duration, 1))

\* set(value, unit).  A month outside 1..12 makes clampDay return NaN, the
\* formatted day reads "NaN" and the parse of setFromLocalParts throws.
set(this, value, unit) ==
  With(getLocalParts(this), LAMBDA r :
    LET parts == CASE unit = "year" -> [r.parts EXCEPT !.year = value]
                   [] unit = "month" -> [r.parts EXCEPT !.month = value - 1]
                   [] unit = "day" -> [r.parts EXCEPT !.day = value]
                   [] unit = "hour" -> [r.parts EXCEPT !.hour = value]
                   [] unit = "minute" -> [r.parts EXCEPT !.minute = value]
                   [] OTHER -> r.parts
    IN IF unit \notin {"year", "month", "day", "hour", "minute"}
         THEN Fail(r.this, EUnsupportedUnit)
       ELSE IF parts.month \notin 0..11 THEN Fail(r.this, EInvalidNumeric)
       ELSE setFromLocalParts(r.this,
              [parts EXCEPT !.day = clampDay(parts.year, parts.month, parts.day),
                            !.hour = Max(0, Min(23, parts.hour)),
                            !.minute = Max(0, Min(59, parts.minute)),
                            !.second = 0]))

\* startOf for a normalized granularity other than week.
startOfParts(this, normalized) ==
  With(getLocalParts(this), LAMBDA r :
    setFromLocalParts(r.this,
      CASE normalized = "minute" -> [r.parts EXCEPT !.second = 0]
        [] normalized = "hour" -> [r.parts EXCEPT !.minute = 0, !.second = 0]
        [] normalized = "day" ->
             [r.parts EXCEPT !.hour = 0, !.minute = 0, !.second = 0]
        [] normalized = "month" ->
             [r.parts EXCEPT !.day = 1, !.hour = 0, !.minute = 0, !.second = 0]
        [] normalized = "year" ->
             [r.parts EXCEPT !.month = 0, !.day = 1, !.hour = 0, !.minute = 0,
                             !.second = 0]))

\* The week case of startOf.
startOfWeek(this) ==
  With(startOfParts(getLocalParts(this).this, "day"), LAMBDA r1 :
    IF ~r1.ok THEN r1
    ELSE With(dayOfWeek(r1.this), LAMBDA dow :
           IF dow.val = 0 THEN Done(dow.this, "this")
           ELSE startOfParts(shift(dow.this, "day", 0 - dow.val).this, "day")))

startOf(this, unit) ==
  With(normalizeGranularity(unit), LAMBDA normalized :
    IF ~normalized.ok THEN Fail(this, normalized.err)
    ELSE IF normalized.val = "week" THEN startOfWeek(this)
    ELSE startOfParts(this, normalized.val))

endOf(this, unit) ==
  With(normalizeGranularity(unit), LAMBDA normalized :
    IF ~normalized.ok THEN Fail(this, normalized.err)
    ELSE IF normalized.val = "minute" THEN Done(this, "this")
    ELSE With(startOf(this, normalized.val), LAMBDA r1 :
           IF ~r1.ok THEN r1
           ELSE With(shift(r1.this, normalized.val, 1), LAMBDA r2 :
                  IF ~r2.ok THEN r2 ELSE shift(r2.this, "minute", 0 - 1))))

\* ---------------------------------------------------------------- timezone

\* clone(): the new object.
\* The receiver handed back in place of a new object.
cloneShared(this) == Return(this)
\* clone(): new DateTz(this)
clone(this) == constructorFromObject(this)

\* convertToTimezone without the invalidation of the offset cache.
convertToTimezoneWrong(this, tz) ==
  IF ~ensureTimezone(tz) THEN Fail(this, EInvalidTimezone)
  ELSE Done([this EXCEPT !.timezone = tz], "this")
convertToTimezone(this, tz) ==
  IF ~ensureTimezone(tz) THEN Fail(this, EInvalidTimezone)
  ELSE Done([this EXCEPT !.timezone = tz, !.offsetCache = <<>>], "this")

\* cloneToTimezone keeping the wall clock of the standard offsets instead of
\* the instant.
cloneToTimezoneWrong(this, tz) ==
  IF ~ensureTimezone(tz) THEN Throw(EInvalidTimezone)
  ELSE Return(NewObject("DateTz",
                        MsAdd(this.timestamp,
                              MsOfSeconds(timezones[this.timezone].sdt
                                          - timezones[tz].sdt)),
                        tz))
\* cloneToTimezone(tz): the new object.
cloneToTimezone(this, tz) ==
  IF ~ensureTimezone(tz) THEN Throw(EInvalidTimezone)
  ELSE LET c == constructorFromObject(this)
       IN IF ~c.ok THEN c
          ELSE Return([c.val EXCEPT !.timezone = tz, !.offsetCache = <<>>])

\* ---------------------------------------------------------------- comparison

\* isComparable answering true for every value.
isComparableWrong(this, other) == TRUE
isComparable(this, other) == this.timezone = other.timezone

\* toDateInstance(other): other itself when it is a DateTz, else a new
\* DateTz in other's timezone, or the receiver's when other has none.
toDateInstance(this, other) ==
  IF other.proto = "DateTz" THEN Return(other)
  ELSE constructor(other.timestamp,
                   IF other.timezone = Undefined THEN this.timezone ELSE other.timezone)

ensureComparable(this, other) ==
  LET instance == toDateInstance(this, other)
  IN IF ~instance.ok THEN instance
     ELSE IF ~isComparable(this, instance.val) THEN Throw(ECannotCompare)
     ELSE instance

\* compare(other): the difference of the timestamps in milliseconds.
compare(this, other) ==
  LET comparable == ensureComparable(this, other)
  IN IF ~comparable.ok THEN comparable
     ELSE Return(MsSub(this.timestamp, comparable.val.timestamp))

\* The quotient a / b truncated toward zero (roundDiff without asFloat).
TruncDiv(a, b) == IF a >= 0 THEN a \div b ELSE 0 - ((0 - a) \div b)

\* The loop of diffInMonths: the months counted when next passes later.
RECURSIVE MonthWalk(_, _, _)
MonthWalk(next, later, months) ==
  IF ~MsLe(next.timestamp, later.timestamp) THEN Return(months)
  ELSE With(add(clone(next).val, 1, "month"), LAMBDA r :
         IF ~r.ok THEN Throw(r.err) ELSE MonthWalk(r.this, later, months + 1))

\* diffInMonths(other, false)
diffInMonths(this, other) ==
  LET forward == MsLe(other.timestamp, this.timestamp)
      earlier == IF forward THEN clone(other).val ELSE clone(this).val
      later == IF forward THEN clone(this).val ELSE clone(other).val
  IN With(add(clone(earlier).val, 1, "month"), LAMBDA first :
       IF ~first.ok THEN Throw(first.err)
       ELSE With(MonthWalk(first.this, later, 0), LAMBDA months :
              IF ~months.ok THEN months
              ELSE Return(IF forward THEN months.val ELSE 0 - months.val)))

\* diff(other, unit) without asFloat: the difference in milliseconds as a
\* millisecond count, in any other unit as an integer.
diff(this, other, unit) ==
  With(normalizeDiffUnit(unit), LAMBDA normalized :
    IF ~normalized.ok THEN normalized
    ELSE With(ensureComparable(this, other), LAMBDA comparable :
      IF ~comparable.ok THEN comparable
      ELSE IF normalized.val \in {"month", "year"}
        THEN With(diffInMonths(this, comparable.val), LAMBDA months :
               IF ~months.ok \/ normalized.val = "month" THEN months
               ELSE Return(TruncDiv(months.val, 12)))
      ELSE LET delta == MsSub(this.timestamp, comparable.val.timestamp)
           IN CASE normalized.val = "millisecond" -> Return(delta)
                [] normalized.val = "second" ->
                     Return(delta.q * 60 + TruncDiv(delta.r, MS_PER_SECOND))
                [] normalized.val = "minute" -> Return(delta.q)
                [] normalized.val = "hour" -> Return(TruncDiv(delta.q, 60))
                [] normalized.val = "day" -> Return(TruncDiv(delta.q, MINUTES_PER_DAY))
                [] normalized.val = "week" ->
                     Return(TruncDiv(delta.q, 7 * MINUTES_PER_DAY))))

\* The raw timestamps compared whatever the unit.
compareWithUnitDateWrong(this, other, unit) ==
  With(normalizeDiffUnit(unit), LAMBDA normalized :
    IF ~normalized.ok THEN normalized
    ELSE Return(MsSign(MsSub(this.timestamp, other.timestamp))))

\* compareWithUnitDate(other, unit): the sign of the difference suffices for
\* every caller, so the result is -1, 0 or 1.
compareWithUnitDate(this, other, unit) ==
  With(normalizeDiffUnit(unit), LAMBDA normalized :
    IF ~normalized.ok THEN normalized
    ELSE IF normalized.val \in {"millisecond", "second"}
      THEN Return(MsSign(MsSub(this.timestamp, other.timestamp)))
    ELSE With(startOf(clone(this).val, normalized.val), LAMBDA left :
      IF ~left.ok THEN Throw(left.err)
      ELSE With(startOf(clone(other).val, normalized.val), LAMBDA right :
        IF ~right.ok THEN Throw(right.err)
        ELSE Return(MsSign(MsSub(left.this.timestamp, right.this.timestamp))))))

compareWithUnit(this, other, unit) ==
  LET instance == ensureComparable(this, other)
  IN IF ~instance.ok THEN instance
     ELSE compareWithUnitDate(this, instance.val, unit)

\* isBefore, isAfter, isSame, isSameOrBefore, isSameOrAfter.
Relation(op, cmp) ==
  CASE op = "isBefore" -> cmp < 0
    [] op = "isAfter" -> cmp > 0
    [] op = "isSame" -> cmp = 0
    [] op = "isSameOrBefore" -> cmp <= 0
    [] op = "isSameOrAfter" -> cmp >= 0

isRelation(op, this, other, unit) ==
  With(compareWithUnit(this, other, unit), LAMBDA cmp :
    IF ~cmp.ok THEN cmp ELSE Return(Relation(op, cmp.val)))

isBetween(this, start, end, unit, inclusivity) ==
  LET bounds == normalizeInclusivity(inclusivity)
      normalized == normalizeDiffUnit(unit)
  IN IF ~bounds.ok THEN bounds
     ELSE IF ~normalized.ok THEN normalized
     ELSE With(ensureComparable(this, start), LAMBDA rangeStart :
       IF ~rangeStart.ok THEN rangeStart
       ELSE With(ensureComparable(this, end), LAMBDA rangeEnd :
         IF ~rangeEnd.ok THEN rangeEnd
         ELSE IF MsLt(rangeEnd.val.timestamp, rangeStart.val.timestamp)
           THEN Throw(EStartBeforeEnd)
         ELSE With(compareWithUnitDate(this, rangeStart.val, normalized.val),
                   LAMBDA lowerCmp :
           IF ~lowerCmp.ok THEN lowerCmp
           ELSE With(compareWithUnitDate(this, rangeEnd.val, normalized.val),
                     LAMBDA upperCmp :
             IF ~upperCmp.ok THEN upperCmp
             ELSE Return(/\ IF bounds.val[1] = "(" THEN lowerCmp.val > 0
                            ELSE lowerCmp.val >= 0
                         /\ IF bounds.val[2] = ")" THEN upperCmp.val < 0
                            ELSE upperCmp.val <= 0)))))

\* ---------------------------------------------------------------- hydrate

\* hydrate with the caller's timezone put before the object's own.
hydrateWrong(value, tz) ==
  LET timezone == IF tz # Undefined THEN tz
                  ELSE IF value.timezone # Undefined THEN value.timezone ELSE "UTC"
      instance == constructor(value.timestamp, timezone)
  IN IF value.proto = "DateTz" THEN Done(value, "value")
     ELSE IF ~instance.ok THEN Fail(value, instance.err)
     ELSE Done([value EXCEPT !.proto = "DateTz",
                             !.timestamp = instance.val.timestamp,
                             !.timezone = instance.val.timezone], "value")

\* DateTz.hydrate(value, tz) for an object value with a numeric timestamp:
\* outcome and the object afterwards (the same object, its prototype set).
hydrate(value, tz) ==
  LET timezone == IF value.timezone # Undefined THEN value.timezone
                  ELSE IF tz = Undefined THEN "UTC" ELSE tz
      instance == constructor(value.timestamp, timezone)
  IN IF value.proto = "DateTz" THEN Done(value, "value")
     ELSE IF ~instance.ok THEN Fail(value, instance.err)
     ELSE Done([value EXCEPT !.proto = "DateTz",
                             !.timestamp = instance.val.timestamp,
                             !.timezone = instance.val.timezone], "value")

\* DateTz.maybeHydrate(value, tz) for an object value with a numeric
\* timestamp: it hands hydrate the timezone it resolved.
maybeHydrate(value, tz) ==
  IF value.proto = "DateTz" THEN Done(value, "value")
  ELSE hydrate(value,
               IF value.timezone # Undefined THEN value.timezone
               ELSE IF tz = Undefined THEN "UTC" ELSE tz)

\* DateTz.from(value, tz) for an object value with a numeric timestamp (a
\* hydrated object is truthy, so the final throw is not reached).
from(value, tz) ==
  IF value.proto = "DateTz" THEN Done(value, "value")
  ELSE maybeHydrate(value, tz)

\* Serialized form: toObject, toJSON, toBSON and valueOf.
toObject(this) == [timestamp |-> this.timestamp, timezone |-> this.timezone]

\* ---------------------------------------------------------------- static helpers

\* DateTz.isSerialized(value) for an object value with a numeric timestamp:
\* the answer and the object afterwards (hydrate is tried on the object
\* itself, and a throw is caught).
isSerialized(value) ==
  IF value.timezone = Undefined THEN Done(value, FALSE)
  ELSE With(hydrate(value, Undefined), LAMBDA r : Done(r.this, r.ok))

\* DateTz.coerce(value, fallbackTz) for an object value with a numeric
\* timestamp (maybeHydrate answers for every such value).
coerce(value, fallbackTz) == maybeHydrate(value, fallbackTz)

\* The body shared by the static compare, diff and is* helpers: both
\* arguments coerced, the second with the first's timezone as the fallback,
\* then the instance method; left and right are the arguments afterwards.
StaticCall(left, right, Method(_, _)) ==
  With(coerce(left, Undefined), LAMBDA first :
    IF ~first.ok
    THEN [ok |-> FALSE, err |-> first.err, left |-> first.this, right |-> right]
    ELSE With(coerce(right, first.this.timezone), LAMBDA second :
           IF ~second.ok
           THEN [ok |-> FALSE, err |-> second.err, left |-> first.this,
                 right |-> second.this]
           ELSE With(Method(first.this, second.this), LAMBDA r :
                  IF ~r.ok
                  THEN [ok |-> FALSE, err |-> r.err, left |-> first.this,
                        right |-> second.this]
                  ELSE [ok |-> TRUE, err |-> "", val |-> r.val, left |-> first.this,
                        right |-> second.this])))

\* DateTz.compare(left, right)
DateTz_compare(left, right) == StaticCall(left, right, compare)
\* DateTz.diff(left, right, unit)
DateTz_diff(left, right, unit) ==
  StaticCall(left, right, LAMBDA first, second : diff(first, second, unit))
\* DateTz.isBefore, isAfter, isSame, isSameOrBefore, isSameOrAfter(left, right, unit)
DateTz_isRelation(op, left, right, unit) ==
  StaticCall(left, right, LAMBDA first, second : isRelation(op, first, second, unit))

\* DateTz.isBetween(value, start, end, unit, inclusivity); value, start and
\* end are the arguments afterwards.
DateTz_isBetween(value, start, end, unit, inclusivity) ==
  With(coerce(value, Undefined), LAMBDA target :
    IF ~target.ok
    THEN [value |-> target.this,
          ok |-> FALSE,
          err |-> target.err,
          start |-> start,
          end |-> end]
    ELSE With(coerce(start, target.this.timezone), LAMBDA rangeStart :
           IF ~rangeStart.ok
           THEN [value |-> target.this,
                 ok |-> FALSE,
                 err |-> rangeStart.err,
                 start |-> rangeStart.this,
                 end |-> end]
           ELSE With(coerce(end, target.this.timezone), LAMBDA rangeEnd :
                  IF ~rangeEnd.ok
                  THEN [value |-> target.this,
                        ok |-> FALSE,
                        err |-> rangeEnd.err,
                        start |-> rangeStart.this,
                        end |-> rangeEnd.this]
                  ELSE With(isBetween(target.this, rangeStart.this, rangeEnd.this,
                                      unit, inclusivity),
                            LAMBDA r :
                         IF ~r.ok
                         THEN [value |-> target.this,
                               ok |-> FALSE,
                               err |-> r.err,
                               start |-> rangeStart.this,
                               end |-> rangeEnd.this]
                         ELSE [value |-> target.this,
                               ok |-> TRUE,
                               err |-> "",
                               val |-> r.val,
                               start |-> rangeStart.this,
                               end |-> rangeEnd.this]))))

\* ---------------------------------------------------------------- state machine

\* The calls of one behaviour are bounded.
MaxOps == 2

Ids == {"a", "b"}
NoObject == [proto |-> "none"]
IsDateTz(i) == heap[i].proto = "DateTz"
IsObject(i) == heap[i].proto # "none"
Other(i) == IF i = "a" THEN "b" ELSE "a"

\* Instants the objects of the model start from.
\* 2021-03-14 06:30:45.500Z: 01:30 in New York, half an hour before the
\* spring-forward gap; not minute-aligned.
TGap == MsAdd(DateUTC(2021, 2, 14, 6, 30, 45), Ms(0, 500))
\* 2021-01-31 23:30Z: the last day of a 31-day month.
TJan31 == DateUTC(2021, 0, 31, 23, 30, 0)
\* 1969-12-31 23:59:59.999Z: one millisecond before the epoch.
TNeg == Ms(0, 0 - 1)

InitTimestamps == {TGap, TJan31}
InitZones == {"UTC", "America/New_York"}
ArgZones == {"UTC", "America/New_York", "Mars/Phobos"}

Str_2021_03_14_02_30 ==
  <<"2", "0", "2", "1", "-", "0", "3", "-", "1", "4", " ",
    "0", "2", ":", "3", "0", ":", "0", "0">>
Str_2021_01_05_UTC ==
  <<"2", "0", "2", "1", "-", "0", "1", "-", "0", "5", " ",
    "1", "8", ":", "3", "0", ":", "4", "5", " ", "U", "T", "C">>
Str_2021_01_05_Mars ==
  <<"2", "0", "2", "1", "-", "0", "1", "-", "0", "5", " ",
    "1", "8", ":", "3", "0", ":", "4", "5", " ",
    "M", "a", "r", "s", "/", "P", "h", "o", "b", "o", "s">>
PatternWithTz == defaultFormat \o <<" ", "t", "z">>

\* Inputs of parse: <<dateString, pattern>>.
ParseInputs ==
  {<<Str_2021_03_14_02_30, <<>>>>,
   <<Str_2021_01_05_UTC, PatternWithTz>>,
   <<Str_2021_01_05_Mars, PatternWithTz>>,
   <<Str_2021_01_05_UTC, <<>>>>}

\* Inputs of add and subtract: <<value, unit>>.
ShiftInputs ==
  {<<0, "day">>, <<0, "fortnight">>, <<1, "hour">>, <<1, "month">>,
   <<0 - 1, "minute">>, <<1, "fortnight">>, <<1, "second">>}

\* Inputs of plus and minus: the entries of the duration object.
DurationInputs ==
  {<<>>,
   <<<<"days", 1>>, <<"hours", 2>>>>,
   <<<<"days", 1>>, <<"fortnights", 1>>>>,
   <<<<"fortnights", 1>>, <<"days", 1>>>>,
   <<<<"minutes", 0>>, <<"months", 1>>>>}

\* Inputs of set: <<value, unit>>.
SetInputs ==
  {<<31, "day">>, <<2, "month">>, <<13, "month">>, <<10000, "year">>,
   <<30, "minute">>, <<5, "week">>}

StartOfInputs == {"hour", "day", "week", "month", "second", "fortnight"}
EndOfInputs == {"minute", "day", "month", "second", "fortnight"}

Call(op, target, value, unit, tz, text, pattern, r) ==
  [value |-> value,
   pattern |-> pattern,
   ok |-> r.ok,
   err |-> r.err,
   val |-> IF r.ok THEN r.val ELSE "none",
   tz |-> tz,
   unit |-> unit,
   op |-> op,
   target |-> target,
   text |-> text,
   pre |-> heap]

Step == ops < MaxOps /\ ops' = ops + 1 /\ UNCHANGED intl

\* A method that acts on its receiver heap[i].
OnReceiver(i, op, value, unit, tz, r) ==
  /\ Step
  /\ heap' = [heap EXCEPT ![i] = r.this]
  /\ last' = Call(op, i, value, unit, tz, <<>>, <<>>, r)

\* A call that returns a new object, kept as heap[j].
Creates(j, op, target, tz, text, pattern, r) ==
  /\ heap' = IF r.ok THEN [heap EXCEPT ![j] = r.val] ELSE heap
  /\ last' = Call(op, target, 0, "", tz, text, pattern,
                  [ok |-> r.ok, err |-> r.err, val |-> "new"])

Init ==
  /\ intl \in {"up", "down"}
  /\ ops = 0
  /\ \E t \in InitTimestamps, z \in InitZones :
       /\ heap = [i \in Ids |-> IF i = "a" THEN constructor(t, z).val ELSE NoObject]
       /\ last = [value |-> 0,
                  pattern |-> <<>>,
                  ok |-> TRUE,
                  err |-> "",
                  val |-> "new",
                  tz |-> z,
                  unit |-> "",
                  op |-> "new",
                  target |-> "a",
                  text |-> <<>>,
                  pre |-> [i \in Ids |-> NoObject]]

New ==
  \E t \in InitTimestamps \cup {TNeg}, z \in ArgZones \cup {Undefined} :
    Step /\ Creates("b", "new", "b", z, <<>>, <<>>, constructor(t, z))

NewPlain ==
  \E t \in {TGap, TNeg}, z \in ArgZones \cup {Undefined} :
    Step /\ Creates("b", "plain", "b", z, <<>>, <<>>, Return(NewObject("Object", t, z)))

Add ==
  \E i \in Ids, in \in ShiftInputs :
    IsDateTz(i) /\ OnReceiver(i, "add", in[1], in[2], "", add(heap[i], in[1], in[2]))

Subtract ==
  \E i \in Ids, in \in ShiftInputs :
    IsDateTz(i)
    /\ OnReceiver(i, "subtract", in[1], in[2], "", subtract(heap[i], in[1], in[2]))

Plus ==
  \E i \in Ids, d \in DurationInputs :
    IsDateTz(i) /\ OnReceiver(i, "plus", Len(d), "", "", plus(heap[i], d))

Minus ==
  \E i \in Ids, d \in DurationInputs :
    IsDateTz(i) /\ OnReceiver(i, "minus", Len(d), "", "", minus(heap[i], d))

Set ==
  \E i \in Ids, in \in SetInputs :
    IsDateTz(i) /\ OnReceiver(i, "set", in[1], in[2], "", set(heap[i], in[1], in[2]))

StartOf ==
  \E i \in Ids, u \in StartOfInputs :
    IsDateTz(i) /\ OnReceiver(i, "startOf", 0, u, "", startOf(heap[i], u))

EndOf ==
  \E i \in Ids, u \in EndOfInputs :
    IsDateTz(i) /\ OnReceiver(i, "endOf", 0, u, "", endOf(heap[i], u))

ConvertToTimezone ==
  \E i \in Ids, z \in ArgZones :
    IsDateTz(i)
    /\ OnReceiver(i, "convertToTimezone", 0, "", z, convertToTimezone(heap[i], z))

Clone ==
  \E i \in Ids :
    IsDateTz(i) /\ Step /\ Creates(Other(i), "clone", i, "", <<>>, <<>>, clone(heap[i]))

CloneToTimezone ==
  \E i \in Ids, z \in ArgZones :
    /\ IsDateTz(i)
    /\ Step
    /\ Creates(Other(i), "cloneToTimezone", i, z, <<>>, <<>>,
               cloneToTimezone(heap[i], z))

Parse ==
  \E in \in ParseInputs, z \in ArgZones \cup {Undefined} :
    Step /\ Creates("b", "parse", "b", z, in[1], in[2], parse(in[1], in[2], z))

Hydrate ==
  \E i \in Ids, z \in ArgZones \cup {Undefined} :
    IsObject(i) /\ OnReceiver(i, "hydrate", 0, "", z, hydrate(heap[i], z))

GetIsDst ==
  \E i \in Ids :
    IsDateTz(i) /\ OnReceiver(i, "isDst", 0, "", "", get_isDst(heap[i]))

GetHour ==
  \E i \in Ids :
    IsDateTz(i) /\ OnReceiver(i, "hour", 0, "", "", get_hour(heap[i]))

Format ==
  \E i \in Ids, pattern \in {<<>>, PatternWithTz} :
    IsDateTz(i) /\ OnReceiver(i, "toString", 0, "", "", toString(heap[i], pattern))

Next ==
  \/ New \/ NewPlain \/ Add \/ Subtract \/ Plus \/ Minus \/ Set \/ StartOf
  \/ EndOf \/ ConvertToTimezone \/ Clone \/ CloneToTimezone \/ Parse
  \/ Hydrate \/ GetIsDst \/ GetHour \/ Format

Spec == Init /\ [][Next]_vars

\* ---------------------------------------------------------------- comparisons

\* Units and inclusivity tokens the comparison calls are given.
DiffUnits == {Undefined, "minute", "month", "fortnight"}
RelationUnits == {Undefined, "day", "fortnight"}
Inclusivities ==
  {<<"(", ")">>, <<"(", "]">>, <<"[", ")">>, <<"[", "]">>, <<"<", ">">>, <<"(">>}

\* A comparison call of heap[target] with heap[other] (and heap[end] for
\* isBetween).  No comparison changes an object it is given, so a second call
\* would start from the same heap: a behaviour makes one.
CallCompare(op, target, other, end, unit, inclusivity, r) ==
  /\ ops = 0 /\ ops' = 1
  /\ last' = [ok |-> r.ok,
              err |-> r.err,
              val |-> IF r.ok THEN r.val ELSE "none",
              unit |-> unit,
              other |-> other,
              op |-> op,
              end |-> end,
              inclusivity |-> inclusivity,
              target |-> target,
              pre |-> heap]
  /\ UNCHANGED <<intl, heap>>

\* Two objects: a DateTz, and a DateTz or a plain object whose timezone may be
\* missing or unknown to the catalog.
InitCompare ==
  /\ intl \in {"up", "down"}
  /\ ops = 0
  /\ \E t1 \in InitTimestamps, z1 \in InitZones, proto \in {"DateTz", "Object"},
        t2 \in InitTimestamps, z2 \in ArgZones \cup {Undefined} :
       /\ proto = "DateTz" => z2 \in DOMAIN timezones
       /\ heap = [i \in Ids |->
                    IF i = "a" THEN constructor(t1, z1).val
                    ELSE IF proto = "DateTz" THEN constructor(t2, z2).val
                    ELSE NewObject("Object", t2, z2)]
       /\ last = [ok |-> TRUE,
                  err |-> "",
                  val |-> "new",
                  unit |-> Undefined,
                  other |-> "b",
                  op |-> "new",
                  end |-> "b",
                  inclusivity |-> <<>>,
                  target |-> "b",
                  pre |-> [i \in Ids |-> NoObject]]

Compare ==
  \E i \in Ids, j \in Ids :
    /\ IsDateTz(i)
    /\ CallCompare("compare", i, j, j, Undefined, <<>>, compare(heap[i], heap[j]))

IsComparable ==
  \E i \in Ids, j \in Ids :
    /\ IsDateTz(i)
    /\ CallCompare("isComparable", i, j, j, Undefined, <<>>,
                   Return(isComparable(heap[i], heap[j])))

Diff ==
  \E i \in Ids, j \in Ids, unit \in DiffUnits :
    /\ IsDateTz(i)
    /\ CallCompare("diff", i, j, j, unit, <<>>, diff(heap[i], heap[j], unit))

IsBefore ==
  \E i \in Ids, j \in Ids, unit \in RelationUnits :
    /\ IsDateTz(i)
    /\ CallCompare("isBefore", i, j, j, unit, <<>>,
                   isRelation("isBefore", heap[i], heap[j], unit))

IsAfter ==
  \E i \in Ids, j \in Ids, unit \in RelationUnits :
    /\ IsDateTz(i)
    /\ CallCompare("isAfter", i, j, j, unit, <<>>,
                   isRelation("isAfter", heap[i], heap[j], unit))

IsSame ==
  \E i \in Ids, j \in Ids, unit \in RelationUnits :
    /\ IsDateTz(i)
    /\ CallCompare("isSame", i, j, j, unit, <<>>,
                   isRelation("isSame", heap[i], heap[j], unit))

IsSameOrBefore ==
  \E i \in Ids, j \in Ids, unit \in RelationUnits :
    /\ IsDateTz(i)
    /\ CallCompare("isSameOrBefore", i, j, j, unit, <<>>,
                   isRelation("isSameOrBefore", heap[i], heap[j], unit))

IsSameOrAfter ==
  \E i \in Ids, j \in Ids, unit \in RelationUnits :
    /\ IsDateTz(i)
    /\ CallCompare("isSameOrAfter", i, j, j, unit, <<>>,
                   isRelation("isSameOrAfter", heap[i], heap[j], unit))

IsBetween ==
  \E i \in Ids, j \in Ids, k \in Ids, unit \in RelationUnits,
     inclusivity \in Inclusivities :
    /\ IsDateTz(i)
    /\ CallCompare("isBetween", i, j, k, unit, inclusivity,
                   isBetween(heap[i], heap[j], heap[k], unit, inclusivity))

NextCompare ==
  \/ Compare \/ IsComparable \/ Diff \/ IsBefore \/ IsAfter \/ IsSame
  \/ IsSameOrBefore \/ IsSameOrAfter \/ IsBetween

SpecCompare == InitCompare /\ [][NextCompare]_vars

\* ---------------------------------------------------------------- parsing

\* 2021-07-01 12:00Z: daylight time in New York and Rome.
TSummer == DateUTC(2021, 6, 1, 12, 0, 0)
\* 2021-11-07 05:30Z and 06:30Z: both read 01:30 in New York (the overlap).
TFirst0130 == DateUTC(2021, 10, 7, 5, 30, 0)
TSecond0130 == DateUTC(2021, 10, 7, 6, 30, 0)
\* 0999-01-01 00:00Z: a year of three digits.
TYear999 == DateUTC(999, 0, 1, 0, 0, 0)

\* The values formatted and parsed back: <<timestamp, timezone>>.
RoundTripValues ==
  ({TJan31, TSummer, TGap, TFirst0130, TSecond0130, TNeg}
   \X {"UTC", "Asia/Tokyo", "America/New_York", "Europe/Rome"})
  \cup {<<TYear999, "UTC">>}

PatternDayFirst ==
  <<"D", "D", "/", "M", "M", "/", "Y", "Y", "Y", "Y", " ", "H", "H", ":", "m", "m">>
Pattern12h ==
  <<"Y", "Y", "Y", "Y", "-", "M", "M", "-", "D", "D", " ",
    "h", "h", ":", "m", "m", " ", "a", "a">>

\* Patterns that name year, month, day, hour and minute; <<>> is the default.
RoundTripPatterns == {<<>>, PatternWithTz, PatternDayFirst, Pattern12h}

LocalFields(year, month, day, hour, minute) ==
  [year |-> year, month |-> month, day |-> day, hour |-> hour, minute |-> minute,
   second |-> 0]

\* Local times parsed with the default pattern: around the spring-forward gaps
\* of New York (2021-03-14 02:00 to 03:00) and Rome (2021-03-28 02:00 to
\* 03:00), and in the fall-back overlaps of New York (2021-11-07 01:00 to
\* 02:00) and Rome (2021-10-31 02:00 to 03:00).
LocalInputs ==
  {LocalFields(2021, 2, 14, 1, 30), LocalFields(2021, 2, 14, 2, 0),
   LocalFields(2021, 2, 14, 2, 30), LocalFields(2021, 2, 14, 2, 59),
   LocalFields(2021, 2, 14, 3, 0), LocalFields(2021, 2, 28, 2, 30),
   LocalFields(2021, 10, 7, 1, 0), LocalFields(2021, 10, 7, 1, 30),
   LocalFields(2021, 10, 7, 2, 0), LocalFields(2021, 9, 31, 2, 30)}

LocalZones == {"UTC", "America/New_York", "Europe/Rome"}

\* A call of the formatter or the parser.
CallParse(op, text, pattern, tz, fields, r) ==
  [pattern |-> pattern,
   ok |-> r.ok,
   err |-> r.err,
   tz |-> tz,
   op |-> op,
   text |-> text,
   pre |-> heap,
   fields |-> fields]

InitParse ==
  /\ intl \in {"up", "down"}
  /\ ops = 0
  /\ \E v \in RoundTripValues :
       /\ heap = [i \in Ids |-> IF i = "a" THEN constructor(v[1], v[2]).val ELSE NoObject]
       /\ last = [pattern |-> <<>>,
                  ok |-> TRUE,
                  err |-> "",
                  tz |-> v[2],
                  op |-> "new",
                  text |-> <<>>,
                  pre |-> [i \in Ids |-> NoObject],
                  fields |-> <<>>]

\* The parser's result is kept as heap["b"].
Parsed(op, text, pattern, tz, fields, r) ==
  /\ ops' = ops + 1
  /\ heap' = IF r.ok THEN [heap EXCEPT !["b"] = r.val] ELSE heap
  /\ last' = CallParse(op, text, pattern, tz, fields, r)
  /\ UNCHANGED intl

Formatted(pattern, r) ==
  /\ ops' = 1
  /\ heap' = [heap EXCEPT !["a"] = r.this]
  /\ last' = CallParse("toString", r.val, pattern, heap["a"].timezone, <<>>, r)
  /\ UNCHANGED intl

\* v.toString(pattern)
FormatValue ==
  \E pattern \in RoundTripPatterns :
    ops = 0 /\ Formatted(pattern, toString(heap["a"], pattern))

\* DateTz.parse(v.toString(pattern), pattern, v.timezone)
ParseBack ==
  /\ ops = 1
  /\ last.op = "toString"
  /\ Parsed("parseBack", last.text, last.pattern, last.tz, <<>>,
            parse(last.text, last.pattern, last.tz))

\* DateTz.parse(text, undefined, tz) for the text of a local time.
ParseLocal ==
  \E fields \in LocalInputs, z \in LocalZones :
    /\ ops = 0
    /\ Parsed("parse", formatted(fields), <<>>, z, fields,
              parse(formatted(fields), <<>>, z))

NextParse == FormatValue \/ ParseBack \/ ParseLocal

SpecParse == InitParse /\ [][NextParse]_vars

\* ---------------------------------------------------------------- scanning

\* Patterns of the scan: 12-hour patterns without and with a marker, a
\* bracketed run that spells hh, 24-hour patterns, and the timezone token
\* before a literal and at the end.
PatternTime12 == <<"h", "h", ":", "m", "m">>
PatternTime12Tz == <<"h", "h", ":", "m", "m", " ", "t", "z">>
PatternTime12Marker == <<"h", "h", ":", "m", "m", " ", "a", "a">>
PatternQuoted12 == <<"[", "h", "h", "]", " ", "H", "H", ":", "m", "m">>
PatternTime24 == <<"H", "H", ":", "m", "m">>
PatternTime24Tz == <<"H", "H", ":", "m", "m", " ", "t", "z">>
PatternTzFirst == <<"t", "z", " ", "H", "H", ":", "m", "m">>

ScanPatterns ==
  {PatternTime12, PatternTime12Tz, PatternTime12Marker, PatternQuoted12,
   PatternTime24, PatternTime24Tz, PatternTzFirst}

\* Input strings of the scan: exact ones, a literal that differs, an input
\* that ends inside a token, text left over, known and unknown timezone ids.
ScanTexts ==
  {<<"0", "9", ":", "3", "0">>,
   <<"0", "9", "-", "3", "0">>,
   <<"0", "9", ":", "3">>,
   <<>>,
   <<"0", "9", ":", "3", "0", " ", "p", "m">>,
   <<"0", "9", ":", "3", "0", ":", "1", "5">>,
   <<"0", "9", ":", "3", "0", " ", "U", "T", "C">>,
   <<"0", "9", "-", "3", "0", " ", "M", "a", "r", "s", "/", "P", "h", "o", "b", "o", "s">>,
   <<"0", "9", ":", "3", "0", " ", "M", "a", "r", "s", "/", "P", "h", "o", "b", "o", "s">>,
   <<"h", "h", " ", "0", "9", ":", "3", "0">>,
   <<"U", "T", "C", " ", "0", "9", ":", "3", "0">>,
   <<"U", "T", "C", "0", "9", ":", "3", "0">>}

ScanZones == {Undefined, "UTC", "America/New_York"}

InitScan ==
  /\ intl \in {"up", "down"}
  /\ ops = 0
  /\ heap = [i \in Ids |-> NoObject]
  /\ last = [pattern |-> <<>>,
             ok |-> TRUE,
             err |-> "",
             tz |-> Undefined,
             op |-> "new",
             text |-> <<>>,
             pre |-> [i \in Ids |-> NoObject],
             fields |-> <<>>]

\* DateTz.parse(text, pattern, tz)
ParseText ==
  \E text \in ScanTexts, pattern \in ScanPatterns, z \in ScanZones :
    /\ ops = 0
    /\ Parsed("parse", text, pattern, z, <<>>, parse(text, pattern, z))

NextScan == ParseText

SpecScan == InitScan /\ [][NextScan]_vars

\* ---------------------------------------------------------------- construction

\* Timestamps given to the constructor, in milliseconds: around the epoch and
\* around whole minutes, negative ones included.
ConstructInputs ==
  {0 - 180000, 0 - 120001, 0 - 120000, 0 - 119999, 0 - 90500, 0 - 60001,
   0 - 60000, 0 - 59999, 0 - 30000, 0 - 1000, 0 - 1, 0, 1, 999, 1000, 30000,
   59999, 60000, 60001, 90500, 119999, 120000, 120001, 180000}

ConstructZones == DOMAIN timezones \cup {Undefined, "Mars/Phobos"}

InitConstruct ==
  /\ intl \in {"up", "down"}
  /\ ops = 0
  /\ heap = [i \in Ids |-> NoObject]
  /\ last = [value |-> 0,
             pattern |-> <<>>,
             ok |-> TRUE,
             err |-> "",
             val |-> "none",
             tz |-> Undefined,
             unit |-> "",
             op |-> "none",
             target |-> "a",
             text |-> <<>>,
             pre |-> [i \in Ids |-> NoObject]]

\* a = new DateTz(t, tz) and b = new DateTz(Math.floor(t / 60000) * 60000, tz).
Construct ==
  \E t \in ConstructInputs, z \in ConstructZones :
    /\ ops = 0
    /\ ops' = 1
    /\ UNCHANGED intl
    /\ heap' = IF constructor(Ms(0, t), z).ok
               THEN [i \in Ids |->
                       IF i = "a" THEN constructor(Ms(0, t), z).val
                       ELSE constructor(Ms(0, (t \div MS_PER_MINUTE) * MS_PER_MINUTE),
                                        z).val]
               ELSE heap
    /\ last' = Call("construct", "a", t, "", z, <<>>, <<>>, constructor(Ms(0, t), z))

NextConstruct == Construct

SpecConstruct == InitConstruct /\ [][NextConstruct]_vars

\* ---------------------------------------------------------------- calendar arithmetic

\* Instants the value of a calendar call starts from.
CalendarInstants ==
  {TJan31,                             \* the last day of a 31-day month
   DateUTC(2020, 1, 28, 12, 0, 0),     \* February 28 of a leap year
   DateUTC(2020, 1, 29, 12, 0, 0),     \* February 29
   DateUTC(2021, 1, 15, 12, 0, 0),     \* February of a common year
   DateUTC(2021, 3, 15, 12, 0, 0),     \* a 30-day month
   floorToMinute(TGap),                \* New York 01:30, before the gap
   DateUTC(2021, 2, 14, 16, 0, 0),     \* noon of New York's spring-forward day
   DateUTC(2021, 2, 17, 16, 0, 0),     \* the Wednesday after it
   TSecond0130,                        \* New York's second 01:30
   DateUTC(2021, 10, 7, 17, 0, 0),     \* noon of New York's fall-back day
   DateUTC(2021, 10, 10, 17, 0, 0)}    \* the Wednesday after it

\* Inputs of add: <<value, unit>>.
CalendarAddInputs ==
  {<<1, "month">>, <<0 - 1, "month">>, <<2, "month">>, <<11, "month">>,
   <<12, "month">>, <<13, "month">>, <<0 - 14, "month">>, <<25, "month">>,
   <<0 - 25000, "month">>,
   <<1, "year">>, <<0 - 1, "year">>, <<4, "year">>, <<0 - 1990, "year">>,
   <<8000, "year">>,
   <<1, "minute">>, <<0 - 1, "minute">>, <<90, "minute">>,
   <<1, "hour">>, <<0 - 3, "hour">>,
   <<1, "day">>, <<0 - 1, "day">>, <<2, "day">>,
   <<1, "week">>, <<0 - 1, "week">>, <<2, "week">>}

\* Inputs of subtract: <<value, unit>>.
CalendarSubtractInputs ==
  {<<1, "minute">>, <<0 - 90, "minute">>, <<1, "hour">>, <<25, "hour">>,
   <<1, "day">>, <<0 - 2, "day">>, <<1, "week">>, <<1, "month">>, <<1, "year">>}

\* Inputs of set: <<value, unit>>.
CalendarSetInputs ==
  {<<15, "day">>, <<29, "day">>, <<30, "day">>, <<31, "day">>, <<32, "day">>,
   <<2, "month">>}

CalendarUnits == {"minute", "hour", "day", "week", "month", "year"}

InitCalendar ==
  /\ intl \in {"up", "down"}
  /\ ops = 0
  /\ \E t \in CalendarInstants, z \in DOMAIN timezones :
       /\ heap = [i \in Ids |-> IF i = "a" THEN constructor(t, z).val ELSE NoObject]
       /\ last = [value |-> 0,
                  pattern |-> <<>>,
                  ok |-> TRUE,
                  err |-> "",
                  val |-> "new",
                  tz |-> z,
                  unit |-> "",
                  op |-> "new",
                  target |-> "a",
                  text |-> <<>>,
                  pre |-> [i \in Ids |-> NoObject]]

\* One call of a method on the value heap["a"].
OnValue(op, value, unit, r) ==
  /\ ops = 0
  /\ ops' = 1
  /\ UNCHANGED intl
  /\ heap' = [heap EXCEPT !["a"] = r.this]
  /\ last' = Call(op, "a", value, unit, "", <<>>, <<>>, r)

CalendarAdd ==
  \E in \in CalendarAddInputs :
    OnValue("add", in[1], in[2], add(heap["a"], in[1], in[2]))

CalendarSubtract ==
  \E in \in CalendarSubtractInputs :
    OnValue("subtract", in[1], in[2], subtract(heap["a"], in[1], in[2]))

CalendarSet ==
  \E in \in CalendarSetInputs :
    OnValue("set", in[1], in[2], set(heap["a"], in[1], in[2]))

CalendarStartOf ==
  \E u \in CalendarUnits : OnValue("startOf", 0, u, startOf(heap["a"], u))

CalendarEndOf ==
  \E u \in CalendarUnits : OnValue("endOf", 0, u, endOf(heap["a"], u))

NextCalendar ==
  \/ CalendarAdd \/ CalendarSubtract \/ CalendarSet \/ CalendarStartOf
  \/ CalendarEndOf

SpecCalendar == InitCalendar /\ [][NextCalendar]_vars

\* ---------------------------------------------------------------- serialization

\* A value is serialized, or a plain object without a timezone is made, and
\* the object is then given to the constructor, to from or to hydrate.
SerializeInstants == {TGap, TJan31, TNeg, DateUTC(2021, 6, 1, 12, 0, 0)}
\* toJSON, toBSON and valueOf return this.toObject().
SerializeMethods == {"toObject", "toJSON", "toBSON", "valueOf"}

InitSerialize ==
  /\ intl \in {"up", "down"}
  /\ ops = 0
  /\ \E t \in SerializeInstants, z \in DOMAIN timezones :
       /\ heap = [i \in Ids |-> IF i = "a" THEN constructor(t, z).val ELSE NoObject]
       /\ last = [value |-> 0,
                  pattern |-> <<>>,
                  ok |-> TRUE,
                  err |-> "",
                  val |-> "new",
                  tz |-> z,
                  unit |-> "",
                  op |-> "new",
                  target |-> "a",
                  text |-> <<>>,
                  pre |-> [i \in Ids |-> NoObject]]

\* heap["b"] becomes the plain object a serializing method of heap["a"] returns.
Serialize ==
  \E method \in SerializeMethods :
    /\ ops = 0
    /\ ops' = 1
    /\ UNCHANGED intl
    /\ Creates("b", method, "a", "", <<>>, <<>>,
               Return(NewObject("Object", toObject(heap["a"]).timestamp,
                                toObject(heap["a"]).timezone)))

\* heap["b"] becomes a plain object { timestamp } without a timezone.
PlainWithoutTimezone ==
  \E t \in SerializeInstants :
    /\ ops = 0
    /\ ops' = 1
    /\ UNCHANGED intl
    /\ Creates("b", "plain", "b", Undefined, <<>>, <<>>,
               Return(NewObject("Object", t, Undefined)))

\* new DateTz(heap["b"]): the new instance takes the place of the object.
NewFromObject ==
  /\ ops = 1
  /\ heap["b"].proto = "Object"
  /\ ops' = 2
  /\ UNCHANGED intl
  /\ Creates("b", "new", "b", Undefined, <<>>, <<>>, constructorFromObject(heap["b"]))

\* DateTz.from(heap["b"], tz): the object itself is returned, hydrated.
FromObject ==
  \E z \in ArgZones \cup {Undefined} :
    /\ ops = 1
    /\ heap["b"].proto = "Object"
    /\ ops' = 2
    /\ UNCHANGED intl
    /\ heap' = [heap EXCEPT !["b"] = from(heap["b"], z).this]
    /\ last' = Call("from", "b", 0, "", z, <<>>, <<>>, from(heap["b"], z))

\* DateTz.hydrate(heap["b"], tz)
HydrateObject ==
  \E z \in ArgZones \cup {Undefined} :
    /\ ops = 1
    /\ heap["b"].proto = "Object"
    /\ ops' = 2
    /\ UNCHANGED intl
    /\ heap' = [heap EXCEPT !["b"] = hydrate(heap["b"], z).this]
    /\ last' = Call("hydrate", "b", 0, "", z, <<>>, <<>>, hydrate(heap["b"], z))

NextSerialize ==
  \/ Serialize \/ PlainWithoutTimezone \/ NewFromObject \/ FromObject
  \/ HydrateObject

SpecSerialize == InitSerialize /\ [][NextSerialize]_vars

\* ---------------------------------------------------------------- scenario

\* The getters and the default string of a value at 2021-01-01 00:00 UTC or
\* 2021-07-01 00:00 UTC, under each host.
BASE_TIMESTAMP == DateUTC(2021, 0, 1, 0, 0, 0)
ScenarioInstants == {BASE_TIMESTAMP, DateUTC(2021, 6, 1, 0, 0, 0)}

InitScenario ==
  /\ intl \in {"up", "down", "daylight"}
  /\ ops = 0
  /\ \E t \in ScenarioInstants, z \in DOMAIN timezones :
       /\ heap = [i \in Ids |-> IF i = "a" THEN constructor(t, z).val ELSE NoObject]
       /\ last = [value |-> 0,
                  pattern |-> <<>>,
                  ok |-> TRUE,
                  err |-> "",
                  val |-> "new",
                  tz |-> z,
                  unit |-> "",
                  op |-> "new",
                  target |-> "a",
                  text |-> <<>>,
                  pre |-> [i \in Ids |-> NoObject]]

\* toString() without a pattern.
FormatDefault ==
  \E i \in Ids :
    IsDateTz(i) /\ OnReceiver(i, "toString", 0, "", "", toString(heap[i], <<>>))

NextScenario == GetIsDst \/ GetHour \/ FormatDefault

SpecScenario == InitScenario /\ [][NextScenario]_vars

\* ---------------------------------------------------------------- ranges

\* Three values of one timezone, start not after end, and one isBetween call.
\* The instants share an hour, a day, a week, a month or a year.
BetweenIds == {"a", "b", "c"}
BetweenInstants ==
  {DateUTC(2021, 2, 10, 15, 10, 0), DateUTC(2021, 2, 10, 15, 40, 0),
   DateUTC(2021, 2, 10, 20, 0, 0), DateUTC(2021, 2, 12, 12, 0, 0),
   DateUTC(2021, 2, 25, 12, 0, 0), DateUTC(2021, 5, 1, 12, 0, 0)}
BetweenZones == {"UTC", "America/New_York"}
BetweenUnits ==
  {Undefined, "second", "minute", "hour", "day", "week", "month", "year"}
BetweenTokens == {<<"(", ")">>, <<"(", "]">>, <<"[", ")">>, <<"[", "]">>}

InitBetween ==
  /\ intl \in {"up", "down"}
  /\ ops = 0
  /\ \E t \in BetweenInstants, start \in BetweenInstants, end \in BetweenInstants,
        z \in BetweenZones :
       /\ MsLe(start, end)
       /\ heap = [i \in BetweenIds |->
                    constructor(IF i = "a" THEN t ELSE IF i = "b" THEN start ELSE end,
                                z).val]
       /\ last = [ok |-> TRUE,
                  err |-> "",
                  val |-> "new",
                  unit |-> Undefined,
                  other |-> "b",
                  op |-> "new",
                  end |-> "c",
                  inclusivity |-> <<>>,
                  target |-> "a",
                  pre |-> [i \in BetweenIds |-> NoObject]]

\* heap["a"].isBetween(heap["b"], heap["c"], unit, inclusivity)
Between ==
  \E unit \in BetweenUnits, inclusivity \in BetweenTokens :
    /\ IsDateTz("a")
    /\ CallCompare("isBetween", "a", "b", "c", unit, inclusivity,
                   isBetween(heap["a"], heap["b"], heap["c"], unit, inclusivity))

NextBetween == Between

SpecBetween == InitBetween /\ [][NextBetween]_vars

\* ---------------------------------------------------------------- months

\* Instants at noon UTC on days 15 and 28 to 31 of the months from December
\* to April, in a common and in a leap year.
MonthInstants ==
  {DateUTC(2019, 11, 31, 12, 0, 0), DateUTC(2020, 0, 29, 12, 0, 0),
   DateUTC(2020, 0, 30, 12, 0, 0), DateUTC(2020, 1, 29, 12, 0, 0),
   DateUTC(2020, 2, 29, 12, 0, 0), DateUTC(2021, 0, 15, 12, 0, 0),
   TJan31, DateUTC(2021, 1, 28, 12, 0, 0), DateUTC(2021, 2, 15, 12, 0, 0),
   DateUTC(2021, 2, 28, 12, 0, 0), DateUTC(2021, 2, 30, 12, 0, 0),
   DateUTC(2021, 2, 31, 12, 0, 0), DateUTC(2021, 3, 30, 12, 0, 0)}

MonthZones == {"UTC", "America/New_York"}

\* heap["a"] is not after heap["b"], both in one zone.
InitMonths ==
  /\ intl \in {"up", "down"}
  /\ ops = 0
  /\ \E a \in MonthInstants, b \in MonthInstants, z \in MonthZones :
       /\ MsLe(a, b)
       /\ heap = [i \in Ids |-> constructor(IF i = "a" THEN a ELSE b, z).val]
       /\ last = [ok |-> TRUE,
                  err |-> "",
                  val |-> "new",
                  unit |-> Undefined,
                  other |-> "b",
                  op |-> "new",
                  end |-> "b",
                  inclusivity |-> <<>>,
                  target |-> "a",
                  pre |-> [i \in Ids |-> NoObject]]

\* heap[i].diff(heap[j], 'month')
DiffMonths ==
  \E i \in Ids :
    /\ IsDateTz(i)
    /\ CallCompare("diff", i, Other(i), Other(i), "month", <<>>,
                   diff(heap[i], heap[Other(i)], "month"))

NextMonths == DiffMonths

SpecMonths == InitMonths /\ [][NextMonths]_vars

\* ---------------------------------------------------------------- offsets

\* Instants of the resolver: in the local-mean-time era of both zones and of
\* Rome alone, in winter and summer of 2021, and on either side of New
\* York's transitions of 2021.
OffsetInstants ==
  {DateUTC(1850, 5, 1, 12, 0, 0), DateUTC(1890, 0, 1, 12, 0, 0),
   DateUTC(2021, 0, 15, 12, 0, 0), TSummer,
   DateUTC(2021, 2, 14, 6, 59, 0), DateUTC(2021, 2, 14, 7, 0, 0),
   TFirst0130, TSecond0130}

InitOffsets ==
  /\ intl \in {"up", "down", "daylight"}
  /\ ops = 0
  /\ \E t \in OffsetInstants, z \in DOMAIN timezones :
       /\ heap = [i \in Ids |-> IF i = "a" THEN constructor(t, z).val ELSE NoObject]
       /\ last = [value |-> 0,
                  pattern |-> <<>>,
                  ok |-> TRUE,
                  err |-> "",
                  val |-> "new",
                  tz |-> z,
                  unit |-> "",
                  op |-> "new",
                  target |-> "a",
                  text |-> <<>>,
                  pre |-> [i \in Ids |-> NoObject]]

\* getOffsetInfo() of heap["a"]: the resolver's answer, kept in the cache.
ResolveOffset ==
  /\ IsDateTz("a")
  /\ With(getOffsetInfo(heap["a"]), LAMBDA r :
       OnValue("getOffsetInfo", 0, "",
               [ok |-> TRUE, err |-> "", val |-> r.info, this |-> r.this]))

NextOffsets == ResolveOffset

SpecOffsets == InitOffsets /\ [][NextOffsets]_vars

\* ---------------------------------------------------------------- order

\* Instants compared by unit: before, inside (05:00Z to 07:00Z) and after New
\* York's fall-back overlap of 2021-11-07, on either side of its
\* spring-forward gap, and the Sunday and the Wednesday of the week of the gap.
OrderInstants ==
  {DateUTC(2021, 2, 14, 6, 30, 0), DateUTC(2021, 2, 14, 7, 30, 0),
   DateUTC(2021, 2, 14, 16, 0, 0), DateUTC(2021, 2, 17, 16, 0, 0),
   DateUTC(2021, 10, 7, 4, 30, 0), TFirst0130, DateUTC(2021, 10, 7, 5, 50, 0),
   DateUTC(2021, 10, 7, 6, 10, 0), TSecond0130, DateUTC(2021, 10, 7, 7, 30, 0)}

OrderZones == {"UTC", "America/New_York"}
OrderUnits == {"minute", "hour", "day", "week", "month", "year"}

\* heap["a"] is not after heap["b"], both in one zone.
InitOrder ==
  /\ intl \in {"up", "down"}
  /\ ops = 0
  /\ \E a \in OrderInstants, b \in OrderInstants, z \in OrderZones :
       /\ MsLe(a, b)
       /\ heap = [i \in Ids |-> constructor(IF i = "a" THEN a ELSE b, z).val]
       /\ last = [ok |-> TRUE,
                  err |-> "",
                  val |-> "new",
                  unit |-> Undefined,
                  other |-> "b",
                  op |-> "new",
                  end |-> "b",
                  inclusivity |-> <<>>,
                  target |-> "a",
                  pre |-> [i \in Ids |-> NoObject]]

\* heap["a"].isAfter(heap["b"], unit)
EarlierIsAfter ==
  \E unit \in OrderUnits :
    /\ IsDateTz("a")
    /\ CallCompare("isAfter", "a", "b", "b", unit, <<>>,
                   isRelation("isAfter", heap["a"], heap["b"], unit))

\* heap["a"].isSameOrBefore(heap["b"], unit)
EarlierIsSameOrBefore ==
  \E unit \in OrderUnits :
    /\ IsDateTz("a")
    /\ CallCompare("isSameOrBefore", "a", "b", "b", unit, <<>>,
                   isRelation("isSameOrBefore", heap["a"], heap["b"], unit))

\* heap["a"].isSame(heap["b"], unit)
EarlierIsSame ==
  \E unit \in OrderUnits :
    /\ IsDateTz("a")
    /\ CallCompare("isSame", "a", "b", "b", unit, <<>>,
                   isRelation("isSame", heap["a"], heap["b"], unit))

NextOrder == EarlierIsAfter \/ EarlierIsSameOrBefore \/ EarlierIsSame

SpecOrder == InitOrder /\ [][NextOrder]_vars

\* ---------------------------------------------------------------- static calls

\* Arguments of the static helpers: instances, and plain objects with a
\* timestamp inside a minute, with and without a timezone, and with a
\* timezone the catalog lacks.
StaticValues ==
  {constructor(TJan31, "UTC").val,
   constructor(TGap, "America/New_York").val,
   NewObject("Object", TGap, "UTC"),
   NewObject("Object", TJan31, "America/New_York"),
   NewObject("Object", TGap, Undefined),
   NewObject("Object", TJan31, "Mars/Phobos")}

StaticUnits == {Undefined, "day"}
StaticRelations == {"isBefore", "isAfter", "isSame", "isSameOrBefore", "isSameOrAfter"}

InitStatic ==
  /\ intl \in {"up", "down"}
  /\ ops = 0
  /\ heap \in [BetweenIds -> StaticValues]
  /\ last = [ok |-> TRUE,
             err |-> "",
             val |-> "new",
             unit |-> Undefined,
             other |-> "b",
             op |-> "new",
             end |-> "c",
             inclusivity |-> <<>>,
             target |-> "a",
             pre |-> [i \in BetweenIds |-> NoObject]]

\* A static helper called on heap["a"] and heap["b"] (and heap["c"]); after
\* holds the arguments as the call leaves them.
CallStatic(op, unit, r, after) ==
  /\ ops = 0
  /\ ops' = 1
  /\ UNCHANGED intl
  /\ heap' = after
  /\ last' = [ok |-> r.ok,
              err |-> r.err,
              val |-> IF r.ok THEN r.val ELSE "none",
              unit |-> unit,
              other |-> "b",
              op |-> op,
              end |-> "c",
              inclusivity |-> <<>>,
              target |-> "a",
              pre |-> heap]

StaticCompare ==
  /\ IsObject("a")
  /\ With(DateTz_compare(heap["a"], heap["b"]), LAMBDA r :
       CallStatic("compare", Undefined, r,
                  [heap EXCEPT !["a"] = r.left, !["b"] = r.right]))

StaticDiff ==
  \E unit \in StaticUnits :
    /\ IsObject("a")
    /\ With(DateTz_diff(heap["a"], heap["b"], unit), LAMBDA r :
         CallStatic("diff", unit, r, [heap EXCEPT !["a"] = r.left, !["b"] = r.right]))

StaticRelation ==
  \E op \in StaticRelations, unit \in StaticUnits :
    /\ IsObject("a")
    /\ With(DateTz_isRelation(op, heap["a"], heap["b"], unit), LAMBDA r :
         CallStatic(op, unit, r, [heap EXCEPT !["a"] = r.left, !["b"] = r.right]))

StaticIsBetween ==
  \E unit \in StaticUnits :
    /\ IsObject("a")
    /\ With(DateTz_isBetween(heap["a"], heap["b"], heap["c"], unit, <<"[", "]">>),
            LAMBDA r :
         CallStatic("isBetween", unit, r,
                    [heap EXCEPT !["a"] = r.value, !["b"] = r.start, !["c"] = r.end]))

IsSerialized ==
  /\ IsObject("a")
  /\ With(isSerialized(heap["a"]), LAMBDA r :
       CallStatic("isSerialized", Undefined, r, [heap EXCEPT !["a"] = r.this]))

NextStatic ==
  \/ StaticCompare \/ StaticDiff \/ StaticRelation \/ StaticIsBetween
  \/ IsSerialized

SpecStatic == InitStatic /\ [][NextStatic]_vars

\* ---------------------------------------------------------------- month walk

\* The loop of diffInMonths taken one iteration at a time.  heap["a"] and
\* heap["b"] are the operands; heap["later"], heap["anchor"] and heap["next"]
\* are the locals of diffInMonths; last holds the position (pc), the counter
\* months, the number of times the loop condition was evaluated (tests), the
\* number of finished calls (runs) and the first call's result (first).

WalkIds == {"a", "b", "later", "anchor", "next"}

\* The loop condition is evaluated at most MaxWalk times in one call.
MaxWalk == 30

\* Instants of the walk: the end of January 2020, New York's 02:30 a month
\* before its spring-forward gap and 01:30 a month before its fall-back
\* overlap, the end of January and the middle of December 2021, March 2022.
WalkInstants ==
  {DateUTC(2020, 0, 31, 12, 0, 0), TJan31, DateUTC(2021, 1, 14, 7, 30, 0),
   DateUTC(2021, 9, 7, 5, 30, 0), DateUTC(2021, 11, 15, 12, 0, 0),
   DateUTC(2022, 2, 1, 0, 0, 0)}

WalkZones == {"UTC", "America/New_York"}
WalkUnits == {"month", "year"}

InitWalk ==
  /\ intl \in {"up", "down"}
  /\ ops = 0
  /\ \E a \in WalkInstants, b \in WalkInstants, z \in WalkZones :
       heap = [i \in WalkIds |->
                 IF i = "a" THEN constructor(a, z).val
                 ELSE IF i = "b" THEN constructor(b, z).val
                 ELSE NoObject]
  /\ last = [first |-> <<>>,
             ok |-> TRUE,
             err |-> "",
             val |-> 0,
             unit |-> "month",
             months |-> 0,
             other |-> "b",
             forward |-> TRUE,
             op |-> "new",
             target |-> "a",
             pc |-> "idle",
             tests |-> 0,
             runs |-> 0]

\* The call has thrown or returned value.
WalkReturns(ok, err, value) ==
  [last EXCEPT !.ok = ok, !.err = err, !.val = value, !.pc = "done",
               !.runs = @ + 1,
               !.first = IF last.runs = 0 /\ ok THEN <<value>> ELSE @]

\* heap[i].diff(heap[Other(i)], unit) up to the head of the loop: forward,
\* earlier, later, anchor and the first next.  A second call repeats the
\* first on the same operands.
WalkBegin ==
  \E i \in {"a", "b"}, unit \in WalkUnits :
    /\ last.pc = "idle" \/ (last.pc = "done" /\ last.runs = 1)
    /\ last.pc = "done" => (i = last.target /\ unit = last.unit)
    /\ ops' = ops + 1
    /\ UNCHANGED intl
    /\ LET this == heap[i]
           other == heap[Other(i)]
           forward == MsLe(other.timestamp, this.timestamp)
           earlier == IF forward THEN clone(other).val ELSE clone(this).val
           later == IF forward THEN clone(this).val ELSE clone(other).val
           anchor == clone(earlier).val
           next == add(clone(anchor).val, 1, "month")
       IN /\ heap' = [heap EXCEPT !["later"] = later, !["anchor"] = anchor,
                                  !["next"] = next.this]
          /\ last' = IF ~next.ok
                     THEN [WalkReturns(FALSE, next.err, 0) EXCEPT
                             !.op = "diff", !.target = i, !.other = Other(i),
                             !.unit = unit, !.forward = forward, !.months = 0,
                             !.tests = 0]
                     ELSE [last EXCEPT !.op = "diff", !.target = i,
                                       !.other = Other(i), !.unit = unit,
                                       !.forward = forward, !.months = 0,
                                       !.tests = 0, !.pc = "loop"]

\* One iteration: next is not after later, so anchor becomes next, months
\* grows by one and next becomes a clone of anchor moved on by a month.
WalkStep ==
  /\ last.pc = "loop"
  /\ last.tests < MaxWalk
  /\ MsLe(heap["next"].timestamp, heap["later"].timestamp)
  /\ UNCHANGED <<intl, ops>>
  /\ With(add(clone(heap["next"]).val, 1, "month"), LAMBDA next :
       /\ heap' = [heap EXCEPT !["anchor"] = heap["next"], !["next"] = next.this]
       /\ last' = IF ~next.ok
                  THEN [WalkReturns(FALSE, next.err, 0) EXCEPT
                          !.months = @ + 1, !.tests = @ + 1]
                  ELSE [last EXCEPT !.months = @ + 1, !.tests = @ + 1])

\* The loop condition fails: diffInMonths returns months with the sign of
\* the direction, and diff returns it, divided by 12 for years.
WalkEnd ==
  /\ last.pc = "loop"
  /\ last.tests < MaxWalk
  /\ ~MsLe(heap["next"].timestamp, heap["later"].timestamp)
  /\ UNCHANGED <<intl, ops, heap>>
  /\ With(IF last.forward THEN last.months ELSE 0 - last.months, LAMBDA months :
       last' = [WalkReturns(TRUE, "",
                            IF last.unit = "month" THEN months
                            ELSE TruncDiv(months, 12)) EXCEPT
                  !.tests = @ + 1])

NextWalk == WalkBegin \/ WalkStep \/ WalkEnd

SpecWalk == InitWalk /\ [][NextWalk]_vars

\* A call in the loop can take its next step: ENABLED <<WalkStep \/ WalkEnd>>_vars,
\* since one of the two conditions on next holds and either step changes last.
WalkReady == last.pc = "loop" /\ last.tests < MaxWalk

\* The statements of one call run one after the other until it returns:
\* weak fairness of the loop's steps, WF_vars(WalkStep \/ WalkEnd), with
\* its ENABLED written as WalkReady.
SpecWalkFair ==
  /\ InitWalk
  /\ [][NextWalk]_vars
  /\ (<>[]WalkReady => []<><<WalkStep \/ WalkEnd>>_vars)

\* ---------------------------------------------------------------- properties

\* The wall clock of an instant in a timezone, as a millisecond count.
LocalOf(timezone, timestamp) ==
  MsAdd(timestamp, MsOfSeconds(computeOffsetInfo(timezone, timestamp).offsetSeconds))

\* The instants whose wall clock in the timezone is wall: none in a
\* spring-forward gap, two in a fall-back overlap, else one.
InstantsAt(wall, timezone) ==
  {t \in {MsSub(wall, MsOfSeconds(timezones[timezone].sdt)),
          MsSub(wall, MsOfSeconds(timezones[timezone].dst))} :
     LocalOf(timezone, t) = wall}

WallClock(fields) ==
  DateUTC(fields.year, fields.month, fields.day, fields.hour, fields.minute, 0)

MutatingOps ==
  {"add", "subtract", "plus", "minus", "set", "startOf", "endOf", "convertToTimezone"}

CompareOps ==
  {"compare", "diff", "isBefore", "isAfter", "isSame", "isSameOrBefore",
   "isSameOrAfter", "isBetween"}

\* The timezone a hydrate call gives the object: value.timezone ?? tz ?? 'UTC'.
HydratedZone ==
  IF last.pre[last.target].timezone # Undefined THEN last.pre[last.target].timezone
  ELSE IF last.tz = Undefined THEN "UTC" ELSE last.tz

\* The timezone a parse call gives its result: the id spelled in the text
\* under the pattern with a tz token, else tz ?? 'UTC'.
ParsedZone ==
  IF last.pattern = PatternWithTz
  THEN TzOfChars(SubSeq(last.text, Len(PatternWithTz) - 1, Len(last.text)))
  ELSE IF last.tz = Undefined THEN "UTC" ELSE last.tz

\* C1: after construction and after every sequence of public operations the
\* timestamp of every DateTz is a whole multiple of 60000 ms.
C1_MinuteAligned ==
  \A i \in Ids : IsDateTz(i) => heap[i].timestamp.r = 0

\* C1 witness: hydrate has made a DateTz of a plain object whose timestamp was
\* not a whole minute.
C1_Witness ==
  /\ last.op = "hydrate"
  /\ last.ok
  /\ last.pre[last.target].proto = "Object"
  /\ last.pre[last.target].timestamp.r # 0
  /\ IsDateTz(last.target)

\* C2: the timezone of every DateTz is a key of the catalog, also after calls
\* that fail; a construction, conversion, clone, parse or hydrate whose
\* timezone id is absent from the catalog throws and stores nothing.
C2_TimezoneInCatalog ==
  /\ \A i \in Ids : IsDateTz(i) => heap[i].timezone \in DOMAIN timezones
  /\ (/\ last.op \in {"new", "convertToTimezone", "cloneToTimezone"}
      /\ last.tz \notin DOMAIN timezones \cup {Undefined})
     => (~last.ok /\ last.err = EInvalidTimezone /\ heap = last.pre)
  /\ (/\ last.op = "hydrate"
      /\ last.pre[last.target].proto = "Object"
      /\ HydratedZone \notin DOMAIN timezones)
     => (~last.ok /\ last.err = EInvalidTimezone /\ heap = last.pre)
  /\ (last.op = "parse" /\ ParsedZone \notin DOMAIN timezones)
     => (~last.ok /\ heap = last.pre)

\* C2 witness: convertToTimezone was called with an id absent from the catalog.
C2_Witness ==
  /\ last.op = "convertToTimezone"
  /\ last.tz \notin DOMAIN timezones
  /\ ~last.ok

C4_FailureAtomic ==
  (last.op \in MutatingOps /\ ~last.ok)
  => /\ heap[last.target].timestamp = last.pre[last.target].timestamp
     /\ heap[last.target].timezone = last.pre[last.target].timezone

\* The other value has a timezone id, and it differs from the receiver's.
Differs(j) ==
  /\ last.pre[j].timezone # Undefined
  /\ last.pre[j].timezone # last.pre[last.target].timezone

ArgDiffers ==
  Differs(last.other) \/ (last.op = "isBetween" /\ Differs(last.end))

\* C5 as stated: a comparison with a value of another timezone id throws
\* 'Cannot compare dates with different timezones'.
C5_AlwaysCannotCompare ==
  (last.op \in CompareOps /\ ArgDiffers)
  => (~last.ok /\ last.err = ECannotCompare)

\* C5 amended: a comparison with a value of another timezone id never
\* returns; it throws 'Cannot compare dates with different timezones' when the
\* unit (diff, isBetween) and the inclusivity (isBetween) are supported and
\* the timezone ids of the other values are keys of the catalog.
C5_IncomparableThrows ==
  (last.op \in CompareOps /\ ArgDiffers)
  => /\ ~last.ok
     /\ (/\ last.op \in {"diff", "isBetween"} => normalizeDiffUnit(last.unit).ok
         /\ last.op = "isBetween" => normalizeInclusivity(last.inclusivity).ok
         /\ \A j \in {last.other, last.end} :
              last.pre[j].timezone \in DOMAIN timezones \cup {Undefined})
        => last.err = ECannotCompare

\* C5 witness: isBetween was given an end of another timezone and threw the
\* comparability error.
C5_Witness ==
  /\ last.op = "isBetween"
  /\ ~Differs(last.other)
  /\ Differs(last.end)
  /\ last.err = ECannotCompare

\* C6: compare(other) returns a number exactly when isComparable(other) is
\* true, for a DateTz and for a plain {timestamp, timezone?} object.
C6_IsComparableGuardsCompare ==
  last.op = "compare"
  => (last.ok <=> isComparable(last.pre[last.target], last.pre[last.other]))

\* C7: convertToTimezone and cloneToTimezone keep the timestamp.  With a
\* valid tz, convertToTimezone changes only the timezone of its receiver, and
\* cloneToTimezone returns a new object with the receiver's timestamp and the
\* new timezone, the receiver untouched; with an invalid tz both throw and
\* nothing changes.
C7_ConversionKeepsTimestamp ==
  /\ last.op = "convertToTimezone"
     => /\ last.ok <=> ensureTimezone(last.tz)
        /\ heap[last.target].timestamp = last.pre[last.target].timestamp
        /\ heap[last.target].timezone
             = (IF last.ok THEN last.tz ELSE last.pre[last.target].timezone)
        /\ heap[Other(last.target)] = last.pre[Other(last.target)]
        /\ ~last.ok => heap = last.pre
  /\ last.op = "cloneToTimezone"
     => /\ last.ok <=> ensureTimezone(last.tz)
        /\ heap[last.target] = last.pre[last.target]
        /\ last.ok => /\ IsDateTz(Other(last.target))
                      /\ heap[Other(last.target)].timestamp
                           = last.pre[last.target].timestamp
                      /\ heap[Other(last.target)].timezone = last.tz
        /\ ~last.ok => heap = last.pre

\* C7 witness: cloneToTimezone returned a clone in another timezone.
C7_Witness ==
  /\ last.op = "cloneToTimezone"
  /\ last.ok
  /\ last.tz # last.pre[last.target].timezone

\* C8: add(0, unit) and subtract(0, unit) return without changing timestamp,
\* timezone or offset cache, for every unit.
C8_ZeroIsNoOp ==
  (last.op \in {"add", "subtract"} /\ last.value = 0)
  => (last.ok /\ heap = last.pre)

\* C8 witness: add(0, unit) on an object whose cache is filled, for a unit
\* the library does not know.
C8_Witness ==
  /\ last.op = "add"
  /\ last.value = 0
  /\ last.unit = "fortnight"
  /\ last.pre[last.target].offsetCache # <<>>

\* C9: for a DateTz v whose wall clock belongs to one instant only (no gap,
\* no overlap) and a pattern naming year, month, day, hour and minute,
\* parse(v.toString(pattern), pattern, v.timezone) has v's timestamp and
\* timezone.
C9_RoundTrip ==
  (/\ last.op = "parseBack"
   /\ Cardinality(InstantsAt(LocalOf(heap["a"].timezone, heap["a"].timestamp),
                             heap["a"].timezone)) = 1)
  => /\ last.ok
     /\ heap["b"].timestamp = heap["a"].timestamp
     /\ heap["b"].timezone = heap["a"].timezone

\* The parsed local time exists at no instant of the timezone.
InGap ==
  last.op = "parse" /\ InstantsAt(WallClock(last.fields), last.tz) = {}

\* C10 as stated: a local time inside a spring-forward gap parses to the
\* first instant after the gap, and the result's isDst is true.
C10_FirstInstantAfterGap ==
  InGap
  => /\ last.ok
     /\ get_isDst(heap["b"]).val
     /\ ~computeOffsetInfo(last.tz, MsSub(heap["b"].timestamp, Ms(1, 0))).isDst

\* C10 amended: a local time inside a spring-forward gap parses to the
\* instant that the standard offset gives it, which lies after the gap and
\* reads the parsed local time advanced by the width of the gap; the result's
\* isDst is true.
C10_GapShiftsForward ==
  InGap
  => /\ last.ok
     /\ heap["b"].timezone = last.tz
     /\ heap["b"].timestamp
          = MsSub(WallClock(last.fields), MsOfSeconds(timezones[last.tz].sdt))
     /\ LocalOf(last.tz, heap["b"].timestamp)
          = MsAdd(WallClock(last.fields),
                  MsOfSeconds(timezones[last.tz].dst - timezones[last.tz].sdt))
     /\ get_isDst(heap["b"]).val

\* C10 witness: 02:30 of a spring-forward night was parsed.
C10_Witness ==
  /\ InGap
  /\ last.ok
  /\ last.fields.hour = 2
  /\ last.fields.minute = 30

\* The parsed local time belongs to two instants of the timezone.
InOverlap ==
  /\ last.op = "parse"
  /\ Cardinality(InstantsAt(WallClock(last.fields), last.tz)) = 2

\* C11: a local time inside a fall-back overlap parses to the earlier of its
\* two instants, at which daylight time is in effect, and the local fields
\* of the result are the parsed fields.
C11_OverlapPicksDaylight ==
  InOverlap
  => /\ last.ok
     /\ heap["b"].timezone = last.tz
     /\ heap["b"].timestamp \in InstantsAt(WallClock(last.fields), last.tz)
     /\ \A t \in InstantsAt(WallClock(last.fields), last.tz) :
          MsLe(heap["b"].timestamp, t)
     /\ get_isDst(heap["b"]).val
     /\ get_hour(heap["b"]).val = last.fields.hour
     /\ UTCFields(LocalOf(last.tz, heap["b"].timestamp)) = last.fields

\* C11 witness: 01:30 of New York's fall-back night was parsed.
C11_Witness ==
  /\ InOverlap
  /\ last.ok
  /\ last.tz = "America/New_York"
  /\ last.fields.hour = 1
  /\ last.fields.minute = 30

\* C12: for every integer timestamp t and valid timezone, new DateTz(t, tz)
\* has the timestamp of new DateTz(floor(t / 60000) * 60000, tz), and that
\* timestamp is floor(t / 60000) * 60000.
C12_TruncationIdempotent ==
  (last.op = "construct" /\ last.tz \in DOMAIN timezones \cup {Undefined})
  => /\ last.ok
     /\ IsDateTz("a") /\ IsDateTz("b")
     /\ heap["a"].timestamp = heap["b"].timestamp
     /\ heap["a"].timestamp.r = 0
     /\ heap["a"].timestamp.q * MS_PER_MINUTE
          = (last.value \div MS_PER_MINUTE) * MS_PER_MINUTE
     /\ heap["a"].timestamp.q * MS_PER_MINUTE <= last.value
     /\ last.value < (heap["a"].timestamp.q + 1) * MS_PER_MINUTE
     /\ heap["a"].timezone = heap["b"].timezone

\* C12 witness: a negative timestamp that is no whole minute was constructed
\* in a zone with daylight time.
C12_Witness ==
  /\ last.op = "construct"
  /\ last.ok
  /\ last.value = 0 - 90500
  /\ last.tz = "Europe/Rome"
  /\ heap["a"].timestamp = Ms(0 - 2, 0)

\* The local fields of an object of the heap, and its local day number.
LocalParts(o) == UTCFields(LocalOf(o.timezone, o.timestamp))
LocalDay(o) == LocalOf(o.timezone, o.timestamp).q \div MINUTES_PER_DAY
LocalWeekday(o) == UTCDay(LocalOf(o.timezone, o.timestamp))

\* The receiver of the last call before and after it.
Before == last.pre[last.target]
After == heap[last.target]

\* C13: set(d, 'day') with d greater than the length of the current local
\* month yields the last day of that month, year and month unchanged.
C13_SetDayClamps ==
  (/\ last.op = "set"
   /\ last.unit = "day"
   /\ last.value > daysInMonth(LocalParts(Before).year, LocalParts(Before).month))
  => /\ last.ok
     /\ After.timezone = Before.timezone
     /\ LocalParts(After).year = LocalParts(Before).year
     /\ LocalParts(After).month = LocalParts(Before).month
     /\ LocalParts(After).day
          = daysInMonth(LocalParts(Before).year, LocalParts(Before).month)

\* C13 witness: set(31, 'day') in a 30-day month.
C13_Witness ==
  /\ last.op = "set"
  /\ last.unit = "day"
  /\ last.value = 31
  /\ last.ok
  /\ LocalParts(Before).month = 3
  /\ LocalParts(After).day = 30

\* C14: in a fixed-offset zone add(n, 'month') raises the local month index
\* year * 12 + month by n and add(n, 'year') raises the local year by n and
\* keeps the month; the local day becomes min(day, length of the resulting
\* month), and the local hour and minute are unchanged.
C14_CalendarShift ==
  (/\ last.op = "add"
   /\ last.unit \in {"month", "year"}
   /\ timezones[Before.timezone].sdt = timezones[Before.timezone].dst)
  => /\ last.ok
     /\ last.unit = "month"
        => LocalParts(After).year * 12 + LocalParts(After).month
             = LocalParts(Before).year * 12 + LocalParts(Before).month + last.value
     /\ last.unit = "year"
        => /\ LocalParts(After).year = LocalParts(Before).year + last.value
           /\ LocalParts(After).month = LocalParts(Before).month
     /\ LocalParts(After).day
          = Min(LocalParts(Before).day,
                daysInMonth(LocalParts(After).year, LocalParts(After).month))
     /\ LocalParts(After).hour = LocalParts(Before).hour
     /\ LocalParts(After).minute = LocalParts(Before).minute

\* The minutes in one fixed-length unit.
MinutesIn(unit) ==
  CASE unit = "minute" -> 1
    [] unit = "hour" -> 60
    [] unit = "day" -> 24 * 60
    [] unit = "week" -> 7 * 24 * 60

C16_SerializationRoundTrip ==
  /\ last.op \in SerializeMethods
     => /\ last.ok
        /\ heap["b"].proto = "Object"
        /\ heap["b"].timestamp = heap["a"].timestamp
        /\ heap["b"].timezone = heap["a"].timezone
  /\ (/\ ops = 2
      /\ last.op \in {"new", "from", "hydrate"}
      /\ last.pre["b"].timezone # Undefined)
     => /\ last.ok
        /\ heap["b"].proto = "DateTz"
        /\ heap["b"].timestamp = heap["a"].timestamp
        /\ heap["b"].timezone = heap["a"].timezone
  /\ (/\ ops = 2
      /\ last.op \in {"from", "hydrate"}
      /\ last.pre["b"].timezone = Undefined
      /\ last.tz \in DOMAIN timezones \cup {Undefined})
     => /\ last.ok
        /\ heap["b"].proto = "DateTz"
        /\ heap["b"].timestamp = floorToMinute(last.pre["b"].timestamp)
        /\ heap["b"].timezone = IF last.tz = Undefined THEN "UTC" ELSE last.tz

C16_Witness ==
  /\ ops = 2
  /\ last.op = "hydrate"
  /\ last.ok
  /\ last.tz = "UTC"
  /\ last.pre["b"].proto = "Object"
  /\ last.pre["b"].timezone = "America/New_York"
  /\ heap["b"].proto = "DateTz"
  /\ heap["b"].timezone = "America/New_York"
  /\ heap["b"].timestamp = heap["a"].timestamp

\* The value of the scenario: 2021-01-01 00:00 UTC in a zone whose standard
\* offset is +3600 s and whose daylight offset is +7200 s.
InScenario ==
  /\ heap["a"].timestamp = BASE_TIMESTAMP
  /\ timezones[heap["a"].timezone].sdt = 3600
  /\ timezones[heap["a"].timezone].dst = 7200

\* "2021-01-01 0h:00:00" for a one-digit hour h.
ScenarioText(hour) ==
  <<"2", "0", "2", "1", "-", "0", "1", "-", "0", "1", " ",
    "0", DigitChars[hour + 1], ":", "0", "0", ":", "0", "0">>

\* Does the host report the daylight offset for the value of the scenario?
HostReportsDaylight ==
  /\ intl # "down"
  /\ HostOffsetSeconds(heap["a"].timezone, heap["a"].timestamp)
       = timezones[heap["a"].timezone].dst

C18_EndOfLastMinute ==
  last.op = "endOf"
  => /\ last.ok
     /\ After.timezone = Before.timezone
     /\ last.unit = "minute" => After.timestamp = Before.timestamp
     /\ MsLe(Before.timestamp, After.timestamp)
     /\ last.unit # "minute" => LocalParts(After).minute = 59
     /\ last.unit = "hour"
        => /\ LocalDay(After) = LocalDay(Before)
           /\ LocalParts(After).hour = LocalParts(Before).hour
     /\ last.unit \in {"day", "week", "month", "year"}
        => LocalParts(After).hour = 23
     /\ last.unit = "day" => LocalDay(After) = LocalDay(Before)
     /\ last.unit = "week"
        => /\ LocalWeekday(After) = 6
           /\ LocalDay(After) - LocalDay(Before) \in 0..6
     /\ last.unit = "month"
        => /\ LocalParts(After).year = LocalParts(Before).year
           /\ LocalParts(After).month = LocalParts(Before).month
           /\ LocalParts(After).day
                = daysInMonth(LocalParts(After).year, LocalParts(After).month)
     /\ last.unit = "year"
        => /\ LocalParts(After).year = LocalParts(Before).year
           /\ LocalParts(After).month = 11
           /\ LocalParts(After).day = 31

\* C19: startOf zeroes the local fields below the unit: 'hour' the minute;
\* 'day' the hour and minute on the same local date; 'month' gives day 1;
\* 'year' month 0 and day 1; 'week' gives local 00:00 of the most recent day
\* whose dayOfWeek is 0, at most 6 local days earlier, in every zone.
C19_StartOfZeroesBelow ==
  last.op = "startOf"
  => /\ last.ok
     /\ After.timezone = Before.timezone
     /\ last.unit = "hour" => LocalParts(After).minute = 0
     /\ last.unit = "day"
        => /\ LocalParts(After).hour = 0
           /\ LocalParts(After).minute = 0
           /\ LocalDay(After) = LocalDay(Before)
     /\ last.unit = "month" => LocalParts(After).day = 1
     /\ last.unit = "year"
        => LocalParts(After).month = 0 /\ LocalParts(After).day = 1
     /\ last.unit = "week"
        => /\ LocalParts(After).hour = 0
           /\ LocalParts(After).minute = 0
           /\ LocalWeekday(After) = 0
           /\ LocalDay(Before) - LocalDay(After) \in 0..6

\* The arguments of the last isBetween call, and what the claim is about.
RangeStart == last.pre[last.other]
RangeEnd == last.pre[last.end]
CanonicalTokens == {<<"(", ")">>, <<"(", "]">>, <<"[", ")">>, <<"[", "]">>}
\* A value the receiver can be compared with: its timezone is absent or the
\* receiver's own.
SharesTimezone(o) ==
  o.timezone = Undefined \/ o.timezone = last.pre[last.target].timezone
StartAfterEndToTheMinute ==
  MsLt(Ms(RangeEnd.timestamp.q, 0), Ms(RangeStart.timestamp.q, 0))

\* C20 as stated: isBetween throws 'Start date must be before end date'
\* whenever start's timestamp is greater than end's and 'Invalid inclusivity
\* token' whenever the token is not '()', '(]', '[)' or '[]' (either of the
\* two when both apply), and returns no boolean then.
C20_IsBetweenValidationAsStated ==
  last.op = "isBetween"
  => /\ (/\ MsLt(RangeEnd.timestamp, RangeStart.timestamp)
         /\ last.inclusivity \in CanonicalTokens)
        => ~last.ok /\ last.err = EStartBeforeEnd
     /\ (/\ ~MsLt(RangeEnd.timestamp, RangeStart.timestamp)
         /\ last.inclusivity \notin CanonicalTokens)
        => ~last.ok /\ last.err = EInvalidInclusivity
     /\ (/\ MsLt(RangeEnd.timestamp, RangeStart.timestamp)
         /\ last.inclusivity \notin CanonicalTokens)
        => ~last.ok /\ last.err \in {EStartBeforeEnd, EInvalidInclusivity}

\* C20: isBetween throws 'Invalid inclusivity token' whenever the token is
\* not one of the four forms; with a valid token, a supported unit and two
\* values that share the receiver's timezone it throws 'Start date must be
\* before end date' exactly when start is after end once both are truncated
\* to the minute, and returns a boolean otherwise; it never returns a
\* boolean when start is after end to the minute.
C20_IsBetweenValidation ==
  last.op = "isBetween"
  => /\ last.inclusivity \notin CanonicalTokens
        => ~last.ok /\ last.err = EInvalidInclusivity
     /\ (/\ last.inclusivity \in CanonicalTokens
         /\ (last.unit = Undefined \/ last.unit \in DOMAIN UNIT_ALIASES)
         /\ SharesTimezone(RangeStart)
         /\ SharesTimezone(RangeEnd))
        => IF StartAfterEndToTheMinute
             THEN ~last.ok /\ last.err = EStartBeforeEnd
           ELSE last.ok /\ last.val \in BOOLEAN
     /\ StartAfterEndToTheMinute => ~last.ok

C20_Witness ==
  /\ last.op = "isBetween"
  /\ last.inclusivity = <<"[", ")">>
  /\ last.unit = "day"
  /\ SharesTimezone(RangeStart)
  /\ SharesTimezone(RangeEnd)
  /\ StartAfterEndToTheMinute
  /\ ~last.ok
  /\ last.err = EStartBeforeEnd

\* The timestamp of startOf(unit) applied to a clone of a value.
StartOfUnit(o, unit) == startOf(clone(o).val, unit).this.timestamp

\* The instant a comparison at a unit reads: the raw timestamp for
\* millisecond (the default) and second, else the start of the unit.
AtUnit(o, unit) ==
  IF unit \in {Undefined, "millisecond", "second"} THEN o.timestamp
  ELSE StartOfUnit(o, unit)

\* C21: for same-zone values with start <= end, isBetween is true exactly
\* when this at the unit is after start at the unit (strictly for '(', or
\* equal too for '[') and before end at the unit (strictly for ')', or equal
\* too for ']'); millisecond and second compare the raw timestamps; this,
\* start and end are left unchanged.
C21_IsBetweenSemantics ==
  (/\ last.op = "isBetween"
   /\ last.inclusivity \in CanonicalTokens
   /\ last.pre[last.target].timezone = RangeStart.timezone
   /\ last.pre[last.target].timezone = RangeEnd.timezone
   /\ RangeStart.proto = "DateTz"
   /\ RangeEnd.proto = "DateTz"
   /\ MsLe(RangeStart.timestamp, RangeEnd.timestamp)
   /\ (last.unit = Undefined \/ last.unit \in DOMAIN UNIT_ALIASES))
  => /\ last.ok
     /\ last.val
          = (/\ IF last.inclusivity[1] = "("
                  THEN MsLt(AtUnit(RangeStart, last.unit),
                            AtUnit(last.pre[last.target], last.unit))
                ELSE MsLe(AtUnit(RangeStart, last.unit),
                          AtUnit(last.pre[last.target], last.unit))
             /\ IF last.inclusivity[2] = ")"
                  THEN MsLt(AtUnit(last.pre[last.target], last.unit),
                            AtUnit(RangeEnd, last.unit))
                ELSE MsLe(AtUnit(last.pre[last.target], last.unit),
                          AtUnit(RangeEnd, last.unit)))
     /\ heap = last.pre

C21_Witness ==
  /\ last.op = "isBetween"
  /\ last.unit = "day"
  /\ last.inclusivity = <<"[", ")">>
  /\ last.ok
  /\ last.val = TRUE
  /\ MsLt(last.pre[last.target].timestamp, RangeStart.timestamp)
  /\ StartOfUnit(RangeStart, "day") = StartOfUnit(last.pre[last.target], "day")
  /\ MsLt(RangeStart.timestamp, RangeEnd.timestamp)


\* Does the pattern hold the token (a bracketed run is a literal, not a token).
HasToken(pattern, token) ==
  \E k \in 1..Len(tokenizePattern(pattern)) :
    /\ tokenizePattern(pattern)[k].kind = "token"
    /\ tokenizePattern(pattern)[k].value = token

TwelveHourWithoutMarker(pattern) ==
  /\ HasToken(pattern, <<"h", "h">>)
  /\ ~HasToken(pattern, <<"a", "a">>)
  /\ ~HasToken(pattern, <<"A", "A">>)

\* C22: parse with a pattern that holds the token hh and neither aa nor AA
\* fails with the error that the AM/PM marker is required, whatever the input
\* string, and stores nothing.
C22_TwelveHourNeedsMarker ==
  (last.op = "parse" /\ TwelveHourWithoutMarker(last.pattern))
    => (~last.ok /\ last.err = EAmPmRequired /\ heap = last.pre)

\* A 12-hour pattern without a marker met an input whose literal differs
\* and whose timezone id is unknown.
C22_Witness ==
  /\ last.op = "parse"
  /\ last.pattern = PatternTime12Tz
  /\ last.text = <<"0", "9", "-", "3", "0", " ",
                   "M", "a", "r", "s", "/", "P", "h", "o", "b", "o", "s">>
  /\ ~last.ok
  /\ last.err = EAmPmRequired

\* Can the text from the cursor on be cut into one piece per segment from
\* segment i on: a literal's piece is the literal, a fixed-width token's
\* piece has the token's width, the timezone token's piece is any run.
RECURSIVE Fits(_, _, _, _)
Fits(text, segments, i, cursor) ==
  IF i > Len(segments) THEN cursor = Len(text)
  ELSE IF segments[i].kind = "literal"
    THEN /\ cursor + Len(segments[i].value) <= Len(text)
         /\ SubSeq(text, cursor + 1, cursor + Len(segments[i].value))
              = segments[i].value
         /\ Fits(text, segments, i + 1, cursor + Len(segments[i].value))
  ELSE IF segments[i].value = <<"t", "z">>
    THEN \E n \in cursor..Len(text) : Fits(text, segments, i + 1, n)
  ELSE /\ cursor + Len(segments[i].value) <= Len(text)
       /\ Fits(text, segments, i + 1, cursor + Len(segments[i].value))

\* C23: parse returns a value only when the whole input is matched, segment
\* by segment, with nothing left over: a differing literal, an input that
\* ends inside a fixed-width token and text after the last segment all fail,
\* and a failed parse stores nothing.
C23_ConsumesWholeInput ==
  last.op = "parse"
    => /\ last.ok => Fits(last.text, tokenizePattern(last.pattern), 1, 0)
       /\ ~last.ok => heap = last.pre

\* A 24-hour input with seconds left over after the last segment was refused.
C23_Witness ==
  /\ last.op = "parse"
  /\ last.pattern = PatternTime24
  /\ last.text = <<"0", "9", ":", "3", "0", ":", "1", "5">>
  /\ ~last.ok
  /\ last.err = EConsumeEntire


\* The units the README gives for add, and the units in the switches of
\* shift (subtract), set, and startOf and endOf.
RecognizedUnits(op) ==
  CASE op = "add" -> {"minute", "hour", "day", "month", "year"}
    [] op = "subtract" -> {"minute", "hour", "day", "week", "month", "year"}
    [] op = "set" -> {"year", "month", "day", "hour", "minute"}
    [] OTHER -> {"minute", "hour", "day", "week", "month", "year"}

\* C24: add, subtract, set, startOf and endOf with a unit outside the
\* operation's recognized set (for add: minute, hour, day, month, year) fail
\* with the unsupported-unit or unsupported-granularity error and leave the
\* object unchanged.
C24_UnitValidation ==
  (/\ last.op \in {"add", "subtract", "set", "startOf", "endOf"}
   /\ last.unit \notin RecognizedUnits(last.op))
    => /\ ~last.ok
       /\ last.err \in {EUnsupportedUnit, EUnsupportedGranularity}
       /\ heap = last.pre


\* C25: clone and cloneToTimezone leave the original as it was and return a
\* new object at the original's timestamp with a cache of its own; a
\* mutating method changes no object but its receiver, and returns the
\* receiver.
C25_InstanceIndependence ==
  /\ (last.op \in {"clone", "cloneToTimezone"} /\ last.ok)
       => /\ heap[last.target] = last.pre[last.target]
          /\ heap[Other(last.target)].proto = "DateTz"
          /\ heap[Other(last.target)].timestamp = last.pre[last.target].timestamp
          /\ heap[Other(last.target)].timezone
               = (IF last.op = "clone" THEN last.pre[last.target].timezone
                  ELSE last.tz)
          /\ heap[Other(last.target)].offsetCache = <<>>
  /\ last.op \in MutatingOps
       => /\ heap[Other(last.target)] = last.pre[Other(last.target)]
          /\ last.ok => last.val = "this"

\* One of two objects at the same instant was moved; the other stayed.
C25_Witness ==
  /\ last.op \in MutatingOps
  /\ last.ok
  /\ last.pre[Other(last.target)].proto = "DateTz"
  /\ last.pre[Other(last.target)].timestamp = last.pre[last.target].timestamp
  /\ heap[last.target].timestamp # last.pre[last.target].timestamp
  /\ heap[Other(last.target)].timestamp = last.pre[last.target].timestamp


\* a.clone().add(n, 'month') is not after b.
AddedNotAfter(a, n, b) ==
  With(add(clone(a).val, n, "month"), LAMBDA r :
    r.ok /\ MsLe(r.this.timestamp, b.timestamp))

\* The largest n >= 0 with a.clone().add(n, 'month') not after b, for a not
\* after b; a month has 28 days or more, which bounds n.
WholeMonths(a, b) ==
  LET ns == {n \in 0..(MsSub(b.timestamp, a.timestamp).q \div (28 * MINUTES_PER_DAY)) :
               AddedNotAfter(a, n, b)}
  IN CHOOSE n \in ns : \A k \in ns : k <= n

\* C26: for a not after b in one zone, b.diff(a, 'month') is the largest
\* n >= 0 with a.clone().add(n, 'month') not after b, and a.diff(b, 'month')
\* is its negation.
C26_MonthDiffAgreesWithAdd ==
  (last.op = "diff" /\ last.unit = "month")
    => /\ last.ok
       /\ last.val = (IF last.target = "b" THEN WholeMonths(heap["a"], heap["b"])
                      ELSE 0 - WholeMonths(heap["a"], heap["b"]))


\* The host's offset at the receiver's instant, when the host is usable.
HostOffsetAtCall ==
  HostOffsetSeconds(last.pre["a"].timezone, last.pre["a"].timestamp)
CatalogAtCall == timezones[last.pre["a"].timezone]

\* C27: the resolver returns the standard offset without daylight time for
\* a zone whose catalog offsets are equal, whatever the host says, and when
\* the host is unavailable; otherwise it returns the host's offset, with
\* daylight time off when that is the standard offset, on when it is the
\* daylight offset, and on exactly when it exceeds the standard offset when
\* it is neither.
C27_OffsetResolution ==
  last.op = "getOffsetInfo"
    => /\ (CatalogAtCall.sdt = CatalogAtCall.dst \/ intl = "down")
            => (last.val.offsetSeconds = CatalogAtCall.sdt /\ ~last.val.isDst)
       /\ (CatalogAtCall.sdt # CatalogAtCall.dst /\ intl # "down")
            => /\ last.val.offsetSeconds = HostOffsetAtCall
               /\ HostOffsetAtCall = CatalogAtCall.sdt => ~last.val.isDst
               /\ HostOffsetAtCall = CatalogAtCall.dst => last.val.isDst
               /\ HostOffsetAtCall \notin {CatalogAtCall.sdt, CatalogAtCall.dst}
                    => (last.val.isDst <=> HostOffsetAtCall > CatalogAtCall.sdt)

\* The host gave New York's local mean time, which is in neither catalog
\* column and exceeds the standard offset.
C27_Witness ==
  /\ last.op = "getOffsetInfo"
  /\ intl = "up"
  /\ last.pre["a"].timezone = "America/New_York"
  /\ HostOffsetAtCall \notin {CatalogAtCall.sdt, CatalogAtCall.dst}
  /\ last.val.offsetSeconds = HostOffsetAtCall
  /\ last.val.isDst


\* C28: for a not after b in one zone and every granularity unit,
\* a.isAfter(b, unit) is false and a.isSameOrBefore(b, unit) is true, and
\* a.isSame(b, 'minute') holds exactly when the timestamps are equal.
C28_UnitOrderNeverInverts ==
  /\ last.op = "isAfter" => (last.ok /\ last.val = FALSE)
  /\ last.op = "isSameOrBefore" => (last.ok /\ last.val = TRUE)
  /\ (last.op = "isSame" /\ last.unit = "minute")
       => /\ last.ok
          /\ last.val <=> heap["a"].timestamp = heap["b"].timestamp


\* C29: DateTz.isSerialized and the static compare, diff, isBefore, isAfter,
\* isSame, isSameOrBefore, isSameOrAfter and isBetween leave every argument,
\* plain objects included, with the timestamp, timezone and prototype it had.
C29_StaticHelpersLeaveArguments ==
  last.op \in CompareOps \cup {"isSerialized"}
    => \A i \in BetweenIds :
         /\ heap[i].timestamp = last.pre[i].timestamp
         /\ heap[i].timezone = last.pre[i].timezone
         /\ heap[i].proto = last.pre[i].proto


\* Calendar months from the local month of earlier to the local month of
\* later.
MonthsSpanned(earlier, later) ==
  (getLocalParts(later).parts.year * 12 + getLocalParts(later).parts.month)
  - (getLocalParts(earlier).parts.year * 12 + getLocalParts(earlier).parts.month)

WalkEarlier == IF last.forward THEN heap[last.other] ELSE heap[last.target]

\* In the loop each next is after its anchor, and the condition has been
\* evaluated no more often than the months spanned plus one.
WalkAdvances ==
  last.op = "diff"
    => /\ last.pc = "loop"
            => MsLt(heap["anchor"].timestamp, heap["next"].timestamp)
       /\ last.tests <= MonthsSpanned(WalkEarlier, heap["later"]) + 1

\* A finished call has returned what diff returns, and a repeated call what
\* the first returned.
WalkRepeats ==
  (last.op = "diff" /\ last.pc = "done")
    => /\ last.ok
       /\ last.val = diff(heap[last.target], heap[last.other], last.unit).val
       /\ last.first = <<last.val>>

\* C30: the month walk of diff terminates: each add(1, 'month') moves next
\* past its anchor, the loop condition is evaluated at most (months spanned
\* + 1) times, every call of diff by month or year returns, and a repeated
\* call returns the same result.
C30_MonthWalkTerminates ==
  /\ [](WalkAdvances /\ WalkRepeats)
  /\ (last.pc = "loop") ~> (last.pc = "done")

\* A second walk over a fall-back overlap month in New York has returned.
C30_Witness ==
  /\ last.op = "diff"
  /\ last.pc = "done"
  /\ last.runs = 2
  /\ last.months >= 2
  /\ heap["a"].timezone = "America/New_York"
  /\ intl = "up"

====
